---- MODULE Spec2Model ----
(***************************************************************************)
(* Model of the questionnaire wizard of spec_form:                         *)
(*   - the validators (utils/validation.ts),                               *)
(*   - DraftStorageManager over localStorage (utils/storage.ts),           *)
(*   - the useWizardState hook (hooks/useWizardState.ts), with React's     *)
(*     committed state / queued updates / effects made explicit,           *)
(*   - the App component (App.tsx) with its own draft keys and timers.     *)
(* Exactly one of the three entry points is live in a behaviour; the       *)
(* variable `mounted` says which.                                          *)
(***************************************************************************)
EXTENDS Integers, Sequences, FiniteSets, TLC

VARIABLES
  mounted,          \* "hook" | "app" | "storage": which entry point is live
  now,              \* Date.now() in ms
  localStorage,     \* sequence of [key, value] entries, in key(i) order
  \* ---- useWizardState ----
  wizardState,      \* the committed state (what closures of the last render see)
  queuedState,      \* wizardState after the queued setWizardState updaters
  stateDirty,       \* a setWizardState call is queued (a new object identity)
  validationErrors, \* committed validationErrors state
  queuedErrors,     \* validationErrors after the queued updaters
  stateRef,         \* stateRef.current
  timeoutId,        \* debounce's timeoutId: <<>> or <<deadline>>
  pendingSave,      \* DraftStorageManager.saveDraft calls awaiting the checksum
  nextUuid,         \* number of ids UUIDGenerator.generate has handed out
  turnOps,          \* handler calls made since the last render
  lastCall,         \* the last handler call and what it returned
  writeLog,         \* history: the auto-save writes performed
  \* ---- App ----
  app,              \* currentStep, answers, showResult, isGenerating, isDraftSaved
  appTimer,         \* the auto-save effect's timer: <<>> or <<record>>
  finishTimer,      \* handleFinish's timer: <<>> or <<deadline>>
  \* ---- DraftStorageManager harness ----
  lastResult,       \* the last DraftStorageManager call and what it returned
  \* ---- useOutputGeneration ----
  outputGen,        \* error, generatedOutput, the refs kept for regeneration
  \* ---- validators ----
  emailLastIndex,   \* PII_PATTERNS.email.lastIndex
  \* ---- the catalog ----
  questions         \* the questions option handed to useWizardState

vars == <<mounted, now, localStorage, wizardState, queuedState, stateDirty,
          validationErrors, queuedErrors, stateRef, timeoutId, pendingSave,
          nextUuid, turnOps, lastCall, writeLog, app, appTimer, finishTimer,
          lastResult, outputGen, emailLastIndex, questions>>

hookVars == <<wizardState, queuedState, stateDirty, validationErrors,
              queuedErrors, stateRef, timeoutId, pendingSave, nextUuid,
              turnOps, lastCall, writeLog>>

appVars == <<app, appTimer, finishTimer>>

-----------------------------------------------------------------------------
(* Bounds of the model                                                      *)

MaxTicks == 4          \* clock ticks explored while a component is mounted
MaxResets == 1         \* reset() calls explored
MaxTurnOps == 2        \* handler calls explored within one event turn
MaxPendingSaves == 1   \* saveDraft calls explored awaiting their checksum
MaxReloads == 1        \* days the App page is left and loaded again
MaxDays == 2           \* days explored by the DraftStorageManager calls
MaxOutputMs == 6001    \* time explored while outputs are generated, in ms

-----------------------------------------------------------------------------
(* Answer values: a string is a sequence of characters, a list a sequence   *)
(* of option strings; an absent key reads as undefined.                     *)

Str(s) == [t |-> "string", v |-> s]
Arr(a) == [t |-> "array", v |-> a]
Undefined == [t |-> "undefined", v |-> <<>>]
Num(n) == [t |-> "number", v |-> <<n>>]      \* n is the number's text
Null == [t |-> "null", v |-> <<>>]

Whitespace == {" "}

RECURSIVE TrimStart(_)
TrimStart(s) ==
  IF s = <<>> THEN <<>>
  ELSE IF Head(s) \in Whitespace THEN TrimStart(Tail(s)) ELSE s

RECURSIVE TrimEnd(_)
TrimEnd(s) ==
  IF s = <<>> THEN <<>>
  ELSE IF s[Len(s)] \in Whitespace THEN TrimEnd(SubSeq(s, 1, Len(s) - 1)) ELSE s

trim(s) == TrimEnd(TrimStart(s))

Range(s) == {s[i] : i \in 1..Len(s)}

-----------------------------------------------------------------------------
(* The question catalog: WIZARD_QUESTIONS, as QuestionDefinition records    *)
(* (step = position, layer = the 5-question group).                         *)

Q(id, layer, step, type, required, options) ==
  [id |-> id, layer |-> layer, step |-> step, type |-> type,
   required |-> required, options |-> options,
   minLength |-> <<>>, maxLength |-> <<>>, dependsOn |-> <<>>, showIf |-> <<>>]

WIZARD_QUESTIONS ==
  << Q("purpose", 1, 1, "long-text", TRUE, <<>>),
     Q("goals", 1, 2, "long-text", TRUE, <<>>),
     Q("timeline", 1, 3, "short-text", TRUE, <<>>),
     Q("budget", 1, 4, "single-choice", TRUE, <<"budget1", "budget2">>),
     Q("priority", 1, 5, "multiple-choice", TRUE, <<"priority1", "priority2">>),
     Q("current_process", 2, 6, "long-text", TRUE, <<>>),
     Q("pain_points", 2, 7, "long-text", TRUE, <<>>),
     Q("stakeholders", 2, 8, "single-choice", TRUE, <<"people1", "people2">>),
     Q("departments", 2, 9, "multiple-choice", TRUE, <<"dept1", "dept2">>),
     Q("frequency", 2, 10, "single-choice", TRUE, <<"freq1", "freq2">>),
     Q("current_tools", 3, 11, "long-text", TRUE, <<>>),
     Q("data_format", 3, 12, "multiple-choice", TRUE, <<"format1", "format2">>),
     Q("technical_skill", 3, 13, "single-choice", TRUE, <<"skill1", "skill2">>),
     Q("integration_needs", 3, 14, "long-text", FALSE, <<>>),
     Q("security_requirements", 3, 15, "long-text", FALSE, <<>>) >>

QuestionIds == {questions[i].id : i \in 1..Len(questions)}

\* questions.find(q => q.step === step): <<>> when there is none
FindByStep(step) ==
  LET hits == {i \in 1..Len(questions) : questions[i].step = step}
  IN IF hits = {} THEN <<>>
     ELSE <<questions[CHOOSE i \in hits : \A j \in hits : i <= j]>>

\* questions.find(q => q.id === id)
FindById(id) ==
  LET hits == {i \in 1..Len(questions) : questions[i].id = id}
  IN IF hits = {} THEN <<>>
     ELSE <<questions[CHOOSE i \in hits : \A j \in hits : i <= j]>>

NoAnswers == [q \in QuestionIds |-> Undefined]

\* Object.keys(answers)
Keys(answers) == {q \in QuestionIds : answers[q] # Undefined}

-----------------------------------------------------------------------------
(* Validators                                                               *)

validateLayerProgression(currentStep, currentLayer) ==
  /\ currentLayer \in {1, 2, 3}      \* any other layer: the destructuring throws
  /\ LET min == IF currentLayer = 1 THEN 1 ELSE IF currentLayer = 2 THEN 6 ELSE 11
         max == IF currentLayer = 1 THEN 5 ELSE IF currentLayer = 2 THEN 10 ELSE 15
     IN currentStep >= min /\ currentStep <= max

\* faulty variant: strings are not trimmed
validateRequiredNoTrim(value) ==
  IF value.t = "undefined" THEN FALSE ELSE Len(value.v) > 0

validateRequired(value) ==
  IF value.t \in {"undefined", "null"} THEN FALSE
  ELSE IF value.t = "string" THEN Len(trim(value.v)) > 0
  ELSE IF value.t = "number" THEN value.v # <<"NaN">>
  ELSE Len(value.v) > 0

validateLength(value, min, max) ==
  LET length == Len(trim(value))
  IN /\ (min # <<>> => ~(length < min[1]))
     /\ (max # <<>> => ~(length > max[1]))

\* a string equals an option when it consists of that option's text alone
validateChoice(value, options) ==
  IF value.t = "string" THEN \E i \in 1..Len(options) : value.v = <<options[i]>>
  ELSE IF value.t = "array" THEN \A v \in Range(value.v) : v \in Range(options)
  ELSE FALSE

\* String(value): a list joins its entries with commas
RECURSIVE Join(_)
Join(a) ==
  IF a = <<>> THEN <<>>
  ELSE IF Len(a) = 1 THEN <<a[1]>> ELSE <<a[1], ",">> \o Join(Tail(a))

StringOf(value) == IF value.t = "string" THEN value.v ELSE Join(value.v)

Error(field, code, message) == [field |-> field, message |-> message, code |-> code]

\* showIf is <<>> (none) or <<id>>: the predicate "id is answered"
showIfHolds(question, allAnswers) ==
  question.showIf = <<>> \/ validateRequired(allAnswers[question.showIf[1]])

validateAnswer(question, value, allAnswers) ==
  LET required ==
        IF question.required /\ ~validateRequired(value)
        THEN <<Error(question.id, "REQUIRED", "validation.required")>> ELSE <<>>
      length ==
        IF (question.minLength # <<>> \/ question.maxLength # <<>>)
           /\ ~validateLength(StringOf(value), question.minLength, question.maxLength)
        THEN <<Error(question.id, "LENGTH",
                     IF question.minLength # <<>> THEN "validation.minLength"
                     ELSE "validation.maxLength")>>
        ELSE <<>>
      choice ==
        IF question.type \in {"single-choice", "multiple-choice"}
           /\ question.options # <<>>
           /\ ~validateChoice(value, question.options)
        THEN <<Error(question.id, "CHOICE", "validation.invalidChoice")>> ELSE <<>>
      dependency ==
        IF \E i \in 1..Len(question.dependsOn) :
               ~validateRequired(allAnswers[question.dependsOn[i]])
        THEN <<Error(question.id, "DEPENDENCY", "validation.dependencyNotMet")>>
        ELSE <<>>
  IN IF ~validateRequired(value) THEN required      \* skip further validation
     ELSE IF ~showIfHolds(question, allAnswers) THEN <<>>
     ELSE required \o length \o choice \o dependency

\* faulty variant: no question is ever reported
validateAllAnswersNone(qs, answers) == [id \in {} |-> <<>>]

\* the record of the questions that have errors
validateAllAnswers(qs, answers) ==
  LET errs(i) == validateAnswer(qs[i], answers[qs[i].id], answers)
      bad == {i \in 1..Len(qs) : errs(i) # <<>>}
  IN [id \in {qs[i].id : i \in bad} |->
        LET i == CHOOSE j \in bad : qs[j].id = id /\ \A k \in bad : qs[k].id = id => k <= j
        IN errs(i)]

-----------------------------------------------------------------------------
(* Dates, JSON and checksums                                                *)

DateOf(ms) == <<"Date", ms>>            \* new Date(ms)
\* faulty variant: the text keeps whole minutes only
toISOStringMinutes(d) == <<"ISO", (d[2] \div 60000) * 60000>>

toISOString(d) == <<"ISO", d[2]>>       \* also Date.prototype.toJSON
getTime(d) == d[2]                      \* of a Date, or of new Date(isoString)

\* what JSON.stringify makes of a value held in a wizard state: a Date becomes
\* its ISO string, everything else is kept
PlainDate(d) == IF d[1] = "Date" THEN toISOString(d) ELSE d

\* JSON has no NaN and no Infinity: they are written as null
PlainValue(value) ==
  IF value.t = "number" /\ value.v \in {<<"NaN">>, <<"Infinity">>, <<"-Infinity">>}
  THEN Null ELSE value

\* what JSON.parse(JSON.stringify(ws)) denotes
PlainState(ws) ==
  [ws EXCEPT !.startedAt = PlainDate(@), !.lastModified = PlainDate(@),
             !.answers = [q \in DOMAIN @ |-> PlainValue(@[q])]]

\* JSON text is kept as the value it denotes; text that is not JSON is <<"text", _>>
JSONstringifyState(ws) == <<"json", PlainState(ws)>>
JSONstringifyDraft(draft) == <<"json", [draft EXCEPT !.data = PlainState(@)]>>
JSONparses(text) == text[1] = "json"

\* the empty string, which `if (stored)` takes for no value at all
EmptyText == <<"text", "">>
IsStored(stored) == stored # EmptyText
JSONparse(text) == text[2]

\* SHA-256 is taken to be collision-free: the digest stands for its input
calculateChecksum(data) == <<"sha256-", data>>
verifyChecksum(data, expectedChecksum) == calculateChecksum(data) = expectedChecksum

\* PII_PATTERNS over the serialized state: the answers' text is what can match
PIITokens == {"a@b.jp"}

detectPII(ws) ==
  \E q \in QuestionIds : ws.answers[q].t = "string"
                         /\ Range(ws.answers[q].v) \cap PIITokens # {}

-----------------------------------------------------------------------------
(* localStorage                                                             *)

DRAFT_PREFIX == "wizard-draft-"
DRAFT_RETENTION_HOURS == 24
HourMs == 60 * 60 * 1000
QuotaTotal == 5 * 1024 * 1024

DraftKey(wizardId) == <<DRAFT_PREFIX, wizardId>>
IsDraftKey(key) == key[1] = DRAFT_PREFIX          \* key.startsWith(DRAFT_PREFIX)

IndexOf(storage, key) ==
  LET hits == {i \in 1..Len(storage) : storage[i].key = key}
  IN IF hits = {} THEN 0 ELSE CHOOSE i \in hits : TRUE

HasItem(storage, key) == IndexOf(storage, key) # 0
getItem(storage, key) == storage[IndexOf(storage, key)].value

setItem(storage, key, value) ==
  IF HasItem(storage, key)
  THEN [storage EXCEPT ![IndexOf(storage, key)].value = value]
  ELSE Append(storage, [key |-> key, value |-> value])

removeItem(storage, key) ==
  LET i == IndexOf(storage, key)
  IN IF i = 0 THEN storage
     ELSE SubSeq(storage, 1, i - 1) \o SubSeq(storage, i + 1, Len(storage))

\* value.length / Blob size of a stored text: a draft grows with its answers,
\* <<"blob", n>> is n characters of some other application data
TextLength(text) ==
  IF text[1] = "blob" THEN text[2]
  ELSE IF text = EmptyText THEN 0
  ELSE IF text[1] = "json" /\ "data" \in DOMAIN text[2]
       THEN 300 + 40 * Cardinality(Keys(text[2].data.answers))
  ELSE 40

KeyLength(key) == 36

RECURSIVE UsedFrom(_, _)
UsedFrom(storage, i) ==
  IF i > Len(storage) THEN 0
  ELSE KeyLength(storage[i].key) + TextLength(storage[i].value) + UsedFrom(storage, i + 1)

getUsage(storage) == [used |-> UsedFrom(storage, 1), total |-> QuotaTotal]

checkQuota(storage, sizeInBytes) ==
  LET usage == getUsage(storage) IN (usage.used + sizeInBytes) < usage.total

\* DraftStorageSchema.parse(JSON.parse(stored)) succeeds
ParsesAsDraft(text) ==
  /\ JSONparses(text)
  /\ {"wizardId", "data", "metadata"} \subseteq DOMAIN JSONparse(text)

\* faulty variant: a draft expires at its deadline, not after it
IsExpiredAtDeadline(draft, t) == t >= getTime(draft.metadata.expiresAt)

IsExpired(draft, t) == t > getTime(draft.metadata.expiresAt)   \* now > expiresAt

-----------------------------------------------------------------------------
(* DraftStorageManager                                                      *)

\* cleanupExpiredDraftsSync: collect the keys first, then remove them
KeysToRemove(storage, t) ==
  {i \in 1..Len(storage) :
     /\ IsDraftKey(storage[i].key)
     /\ IsStored(storage[i].value)
     /\ \/ ~ParsesAsDraft(storage[i].value)
        \/ IsExpired(JSONparse(storage[i].value), t)}

RECURSIVE RemoveAll(_, _)
RemoveAll(storage, keys) ==
  IF keys = {} THEN storage
  ELSE LET k == CHOOSE k \in keys : TRUE
       IN RemoveAll(removeItem(storage, k), keys \ {k})

cleanupExpiredDraftsSync(storage, t) ==
  LET idx == KeysToRemove(storage, t)
  IN [storage |-> RemoveAll(storage, {storage[i].key : i \in idx}),
      cleanedCount |-> Cardinality(idx)]

\* handleQuotaExceeded: succeeds when the cleanup removed something
handleQuotaExceeded(storage, t) ==
  LET c == cleanupExpiredDraftsSync(storage, t)
  IN [success |-> c.cleanedCount > 0, storage |-> c.storage]

\* saveDraft up to `await DataIntegrity.calculateChecksum(stateString)`
saveDraftBegin(wizardId, ws, t) ==
  [wizardId |-> wizardId, wizardState |-> ws, now |-> t,
   stateString |-> JSONstringifyState(ws), encrypted |-> detectPII(ws)]

\* the draft record saveDraft builds once the checksum is there
draftStorageOf(p) ==
  [version |-> "1.0", wizardId |-> p.wizardId, data |-> p.wizardState,
   metadata |-> [savedAt |-> toISOString(DateOf(p.now)),
                 expiresAt |-> toISOString(DateOf(p.now + DRAFT_RETENTION_HOURS * HourMs)),
                 checksum |-> <<calculateChecksum(p.stateString)>>,
                 encrypted |-> p.encrypted,
                 compressionUsed |-> FALSE]]

\* saveDraft after the await: quota check, cleanup, write.
\* [ok, error, storage]; ok = FALSE is the thrown StorageError
saveDraftFinish(p, storage, t) ==
  LET dataToStore == JSONstringifyDraft(draftStorageOf(p))
      sizeInBytes == TextLength(dataToStore)
      fits == checkQuota(storage, sizeInBytes)
      quotaResult == handleQuotaExceeded(storage, t)
      storage1 == IF fits THEN storage ELSE quotaResult.storage
  IN IF ~fits /\ ~quotaResult.success
     THEN [ok |-> FALSE, error |-> "QUOTA_EXCEEDED", storage |-> storage1]
     ELSE [ok |-> TRUE, error |-> "",
           storage |-> setItem(storage1, DraftKey(p.wizardId), dataToStore)]

\* loadDraft: [result, data, storage]; result is "data", "null" or the thrown error
loadDraft(wizardId, storage, t) ==
  LET key == DraftKey(wizardId)
      none == [result |-> "null", data |-> <<>>, storage |-> storage]
  IN IF ~HasItem(storage, key) \/ ~IsStored(getItem(storage, key)) THEN none
     ELSE LET stored == getItem(storage, key)
          IN IF ~ParsesAsDraft(stored)
             THEN [none EXCEPT !.result = "DraftError"]
             ELSE LET draft == JSONparse(stored)
                  IN IF IsExpired(draft, t)
                     THEN [none EXCEPT !.storage = removeItem(storage, key)]
                     ELSE IF /\ draft.metadata.checksum # <<>>
                             /\ ~verifyChecksum(JSONstringifyState(draft.data),
                                                draft.metadata.checksum[1])
                     THEN [none EXCEPT !.result = "CORRUPTION_DETECTED"]
                     ELSE [result |-> "data", data |-> <<draft.data>>, storage |-> storage]

DraftMetadataOf(key, stored, draft) ==
  [wizardId |-> key[2],
   savedAt |-> DateOf(getTime(draft.metadata.savedAt)),
   expiresAt |-> DateOf(getTime(draft.metadata.expiresAt)),
   currentStep |-> IF draft.data.currentStep = 0 THEN 1 ELSE draft.data.currentStep,
   answersCount |-> Cardinality(Keys(draft.data.answers)),
   containsPII |-> detectPII(draft.data),
   size |-> TextLength(stored),
   checksum |-> draft.metadata.checksum]

\* the loop of listDrafts: index i runs over the live storage, from which
\* the loop removes entries as it goes
RECURSIVE listDraftsLoop(_, _, _, _)
listDraftsLoop(i, storage, drafts, t) ==
  IF i > Len(storage) THEN [drafts |-> drafts, storage |-> storage]
  ELSE LET key == storage[i].key
           stored == storage[i].value
       IN IF ~IsDraftKey(key) \/ ~IsStored(stored)
          THEN listDraftsLoop(i + 1, storage, drafts, t)
          ELSE IF ~ParsesAsDraft(stored)
               THEN listDraftsLoop(i + 1, removeItem(storage, key), drafts, t)
          ELSE LET draft == JSONparse(stored)
               IN IF t <= getTime(draft.metadata.expiresAt)
                  THEN listDraftsLoop(i + 1, storage,
                                      Append(drafts, DraftMetadataOf(key, stored, draft)), t)
                  ELSE listDraftsLoop(i + 1, removeItem(storage, key), drafts, t)

\* drafts.sort((a, b) => b.savedAt.getTime() - a.savedAt.getTime()), stable
RECURSIVE InsertSorted(_, _)
InsertSorted(sorted, d) ==
  IF sorted = <<>> THEN <<d>>
  ELSE IF getTime(Head(sorted).savedAt) >= getTime(d.savedAt)
       THEN <<Head(sorted)>> \o InsertSorted(Tail(sorted), d)
       ELSE <<d>> \o sorted

\* faulty variant: the list is returned in storage order
sortNothing(drafts) == drafts

RECURSIVE sortBySavedAt(_)
sortBySavedAt(drafts) ==
  IF drafts = <<>> THEN <<>>
  ELSE InsertSorted(sortBySavedAt(SubSeq(drafts, 1, Len(drafts) - 1)), drafts[Len(drafts)])

listDrafts(storage, t) ==
  LET r == listDraftsLoop(1, storage, <<>>, t)
  IN [drafts |-> sortBySavedAt(r.drafts), storage |-> r.storage]

deleteDraft(wizardId, storage) == removeItem(storage, DraftKey(wizardId))

-----------------------------------------------------------------------------
(* useWizardState: options, ids, state                                      *)

autoSave == TRUE
enableDrafts == TRUE
autoSaveInterval == 2000

TickMs == autoSaveInterval \div 2        \* the clock advances in half intervals

UuidPool == <<"uuid-1", "uuid-2", "uuid-3", "uuid-4">>
\* faulty variant: the same id is handed out again
generateAgain(n) == UuidPool[1]

generate(n) == UuidPool[n]               \* UUIDGenerator.generate: the n-th fresh id

NewWizardState(id, t) ==
  [id |-> id, currentStep |-> 1, currentLayer |-> 1, answers |-> NoAnswers,
   startedAt |-> DateOf(t), lastModified |-> DateOf(t),
   isComplete |-> FALSE, draftSaved |-> FALSE, validationErrors |-> <<>>]

NoErrors == [q \in QuestionIds |-> <<>>]

\* a Record<string, ValidationError[]> read with `errors[id] || []`
ErrorsOf(rec) == [q \in QuestionIds |-> IF q \in DOMAIN rec THEN rec[q] ELSE <<>>]

\* faulty variant: the third layer is never returned
getLayerFromStepTwoLayers(step) == IF step <= 5 THEN 1 ELSE 2

getLayerFromStep(step) == IF step <= 5 THEN 1 ELSE IF step <= 10 THEN 2 ELSE 3

\* validateConstitutionalCompliance(state) returns without throwing
Compliant(state) ==
  /\ validateLayerProgression(state.currentStep, state.currentLayer)
  /\ (autoSave => autoSaveInterval = 2000)

NoCall == [op |-> "none", result |-> FALSE]
Call(op, result) == [op |-> op, result |-> result]

NoWrites == [n |-> 0, last |-> <<>>]

Quiescent == turnOps = 0 /\ stateDirty = "clean"

\* setWizardState(updater): the updater's result is queued; an updater that
\* throws does so in the render that applies it
Queue(newState, ok) ==
  /\ queuedState' = IF ok THEN newState ELSE queuedState
  /\ stateDirty' = IF ok /\ stateDirty # "throws" THEN "dirty" ELSE "throws"

InTurn(op, result) ==
  /\ mounted = "hook"
  /\ turnOps < MaxTurnOps
  /\ turnOps' = turnOps + 1
  /\ lastCall' = Call(op, result)
  \* history: a new input starts a new burst
  /\ writeLog' = [writeLog EXCEPT !.n = 0]
  /\ pendingSave' = [i \in 1..Len(pendingSave) |-> [pendingSave[i] EXCEPT !.stale = TRUE]]

-----------------------------------------------------------------------------
(* useWizardState: the handlers                                             *)

\* the values a caller hands to setAnswer for a question of the given type
AnswerInputs(question) ==
  IF question.type = "multiple-choice"
  THEN {Arr(<<>>), Arr(<<question.options[1]>>)}
  ELSE IF question.type = "single-choice"
  THEN {Str(<<>>), Str(<<question.options[1]>>), Str(<<"a">>)}
  ELSE {Str(<<" ">>), Str(<<"a">>)}

EditIds == {"purpose", "priority"}
\* a JavaScript number handed to goToStep: twice its value, or NaN
Whole(n) == [twice |-> 2 * n, nan |-> FALSE]
Half(n) == [twice |-> 2 * n + 1, nan |-> FALSE]      \* n + 0.5
NaN == [twice |-> 0, nan |-> TRUE]

\* the steps goToStep is called with: whole ones, and of the others those on
\* which the updater throws (the state of the model holds whole steps)
GoToSteps == {Whole(0), Whole(5), Whole(16), Half(5), NaN}
LoadIds == {"uuid-0", "uuid-9", "legacy"}

\* the steps at which the caller is taken to call nextStep and previousStep
NextFrom == {1, 5, 14, 15}
PrevFrom == {1, 2, 6, 15}

\* faulty variant: the answer also takes the session back to the first step
setAnswerStateRestart(prev, questionId, value, t) ==
  [prev EXCEPT !.answers[questionId] = value, !.currentStep = 1, !.currentLayer = 1,
               !.lastModified = DateOf(t), !.draftSaved = FALSE]

setAnswerState(prev, questionId, value, t) ==
  [prev EXCEPT !.answers[questionId] = value,
               !.lastModified = DateOf(t), !.draftSaved = FALSE]

setAnswer(questionId, value) ==
  LET newState == setAnswerState(queuedState, questionId, value, now)
      question == FindById(questionId)
  IN /\ InTurn("setAnswer", TRUE)
     /\ Queue(newState, Compliant(newState))
     /\ queuedErrors' =
          IF question = <<>> THEN queuedErrors
          ELSE [queuedErrors EXCEPT ![questionId] =
                  validateAnswer(question[1], value, wizardState.answers)]
     /\ UNCHANGED <<mounted, now, localStorage, wizardState, validationErrors,
                    stateRef, timeoutId, nextUuid,
                    appVars, lastResult, outputGen, emailLastIndex, questions>>

\* calculateNavigationState(state), over the rendered validationErrors;
\* null is <<>>, Math.round(x) is floor(x + 1/2)
calculateNavigationState(state) ==
  LET currentQuestion == FindByStep(state.currentStep)
      currentErrors ==
        IF currentQuestion # <<>> /\ currentQuestion[1].id \in DOMAIN validationErrors
        THEN validationErrors[currentQuestion[1].id]
        ELSE <<>>
      canGoNext ==
        /\ state.currentStep < 15
        /\ \/ currentQuestion = <<>>
           \/ ~currentQuestion[1].required
           \/ currentErrors = <<>>
      canGoPrevious == state.currentStep > 1
  IN [canGoNext |-> canGoNext,
      canGoPrevious |-> canGoPrevious,
      nextStep |-> IF canGoNext THEN <<state.currentStep + 1>> ELSE <<>>,
      previousStep |-> IF canGoPrevious THEN <<state.currentStep - 1>> ELSE <<>>,
      progressPercentage |-> (200 * state.currentStep + 15) \div 30]

navigationState == calculateNavigationState(wizardState)

\* the errors nextStep finds for the question of the committed step
nextStepErrors(ws) ==
  LET currentQuestion == FindByStep(ws.currentStep)
  IN validateAnswer(currentQuestion[1], ws.answers[currentQuestion[1].id], ws.answers)

moveState(prev, newStep, newLayer, t) ==
  [prev EXCEPT !.currentStep = newStep, !.currentLayer = newLayer,
               !.lastModified = DateOf(t), !.draftSaved = FALSE]

\* faulty variant: the last step is not recognised
AtLastStepNever(ws) == ws.currentStep >= 16

\* nextStep's and previousStep's tests of the committed step
AtLastStep(ws) == ws.currentStep >= 15
AtFirstStep(ws) == ws.currentStep <= 1

nextStep ==
  LET currentQuestion == FindByStep(wizardState.currentStep)
      newStep == wizardState.currentStep + 1
      newState == moveState(queuedState, newStep, getLayerFromStep(newStep), now)
  IN IF currentQuestion = <<>>
     THEN /\ InTurn("nextStep", FALSE)
          /\ UNCHANGED <<queuedState, stateDirty, queuedErrors>>
     ELSE IF nextStepErrors(wizardState) # <<>>
     THEN /\ InTurn("nextStep", FALSE)
          /\ queuedErrors' = [queuedErrors EXCEPT ![currentQuestion[1].id] =
                                nextStepErrors(wizardState)]
          /\ UNCHANGED <<queuedState, stateDirty>>
     ELSE IF AtLastStep(wizardState)
     THEN /\ InTurn("nextStep", FALSE)
          /\ UNCHANGED <<queuedState, stateDirty, queuedErrors>>
     ELSE /\ InTurn("nextStep", TRUE)
          /\ Queue(newState, Compliant(newState))
          /\ UNCHANGED queuedErrors

NextStep ==
  /\ nextStep
  /\ UNCHANGED <<mounted, now, localStorage, wizardState, validationErrors,
                 stateRef, timeoutId, nextUuid,
                 appVars, lastResult, outputGen, emailLastIndex, questions>>

previousStep ==
  LET newStep == wizardState.currentStep - 1
  IN /\ IF AtFirstStep(wizardState)
        THEN /\ InTurn("previousStep", FALSE)
             /\ UNCHANGED <<queuedState, stateDirty>>
        ELSE /\ InTurn("previousStep", TRUE)
             /\ Queue(moveState(queuedState, newStep, getLayerFromStep(newStep), now), TRUE)
     /\ UNCHANGED <<mounted, now, localStorage, wizardState, validationErrors,
                    queuedErrors, stateRef, timeoutId, nextUuid,
                    appVars, lastResult, outputGen, emailLastIndex, questions>>

\* goToStep(step): every comparison is with a whole number, where
\* x <= c is ceil(x) <= c and x >= c is floor(x) >= c, and is false for NaN
goToStep(step) ==
  LET floor == step.twice \div 2
      ceil == (step.twice + 1) \div 2
      newLayer == IF step.nan THEN 3 ELSE getLayerFromStep(ceil)
      newState == moveState(queuedState, floor, newLayer, now)
      compliant == /\ ~step.nan
                   /\ Compliant(newState)
                   /\ Compliant([newState EXCEPT !.currentStep = ceil])
  IN /\ IF ~step.nan /\ (step.twice < 2 \/ step.twice > 30)
        THEN /\ InTurn("goToStep", FALSE)
             /\ UNCHANGED <<queuedState, stateDirty>>
        ELSE /\ InTurn("goToStep", TRUE)
             /\ Queue(newState, compliant)
     /\ UNCHANGED <<mounted, now, localStorage, wizardState, validationErrors,
                    queuedErrors, stateRef, timeoutId, nextUuid,
                    appVars, lastResult, outputGen, emailLastIndex, questions>>

\* the manual saveDraft: DraftStorageManager.saveDraft starts on the committed
\* state and awaits the checksum; FinishSave is its continuation
saveDraft ==
  /\ mounted = "hook"
  /\ turnOps < MaxTurnOps
  /\ Len(pendingSave) < MaxPendingSaves
  /\ turnOps' = turnOps + 1
  /\ lastCall' = Call("saveDraft", enableDrafts)
  /\ writeLog' = [writeLog EXCEPT !.n = 0]
  /\ pendingSave' =
       Append([i \in 1..Len(pendingSave) |-> [pendingSave[i] EXCEPT !.stale = TRUE]],
              [kind |-> "manual", stale |-> FALSE, current |-> wizardState,
               p |-> saveDraftBegin(wizardState.id, wizardState, now)])
  /\ UNCHANGED <<mounted, now, localStorage, wizardState, queuedState, stateDirty,
                 validationErrors, queuedErrors, stateRef, timeoutId, nextUuid,
                 appVars, lastResult, outputGen, emailLastIndex, questions>>

\* hook loadDraft: a draft that loads is checked for compliance, then replaces
\* the state; any throw is caught and reported as false
hookLoadDraft(wizardId) ==
  LET r == loadDraft(wizardId, localStorage, now)
      loads == r.result = "data" /\ Compliant(r.data[1])
  IN /\ InTurn("loadDraft", loads)
     /\ localStorage' = r.storage
     /\ IF loads THEN Queue(r.data[1], TRUE) ELSE UNCHANGED <<queuedState, stateDirty>>
     /\ UNCHANGED <<mounted, now, wizardState, validationErrors, queuedErrors,
                    stateRef, timeoutId, nextUuid, appVars, lastResult, outputGen, emailLastIndex, questions>>

reset ==
  /\ nextUuid <= MaxResets
  /\ InTurn("reset", TRUE)
  /\ nextUuid' = nextUuid + 1
  /\ Queue(NewWizardState(generate(nextUuid + 1), now), TRUE)
  /\ queuedErrors' = NoErrors
  /\ UNCHANGED <<mounted, now, localStorage, wizardState, validationErrors,
                 stateRef, timeoutId, appVars, lastResult, outputGen, emailLastIndex, questions>>

\* complete: autoSaveTimeoutRef.current is never assigned, so the clearTimeout
\* branch is not taken and the debounce timer is left as it is
complete ==
  LET allErrors == validateAllAnswers(questions, wizardState.answers)
  IN /\ IF DOMAIN allErrors # {}
        THEN /\ InTurn("complete", FALSE)
             /\ queuedErrors' = ErrorsOf(allErrors)
             /\ UNCHANGED <<queuedState, stateDirty>>
        ELSE /\ InTurn("complete", TRUE)
             /\ Queue([queuedState EXCEPT !.isComplete = TRUE,
                                          !.lastModified = DateOf(now)], TRUE)
             /\ UNCHANGED queuedErrors
     /\ UNCHANGED <<mounted, now, localStorage, wizardState, validationErrors,
                    stateRef, timeoutId, nextUuid, appVars, lastResult, outputGen, emailLastIndex, questions>>

-----------------------------------------------------------------------------
(* useWizardState: render, effects, timers                                  *)

\* React applies the queued updates and runs the effects on [wizardState]:
\* stateRef.current = wizardState, and debouncedAutoSave() unless complete.
\* An updater that threw takes the component down.
\* faulty variant: the ref keeps the state of the first render
refNeverUpdated(ref, committed) == ref

\* the effect that keeps the ref: stateRef.current = wizardState
refAfterRender(ref, committed) == committed

Render ==
  /\ mounted = "hook"
  /\ ~Quiescent
  /\ turnOps' = 0
  /\ lastCall' = NoCall
  /\ IF stateDirty = "throws"
     THEN /\ mounted' = "crashed"
          /\ UNCHANGED <<wizardState, queuedState, stateDirty, validationErrors,
                         queuedErrors, stateRef, timeoutId>>
     ELSE /\ wizardState' = queuedState
          /\ validationErrors' = queuedErrors
          /\ stateDirty' = "clean"
          /\ stateRef' = IF stateDirty = "dirty" THEN refAfterRender(stateRef, queuedState)
                          ELSE stateRef
          /\ timeoutId' = IF stateDirty = "dirty" /\ autoSave /\ ~queuedState.isComplete
                          THEN <<now + autoSaveInterval>> ELSE timeoutId
          /\ UNCHANGED <<mounted, queuedState, queuedErrors>>
  /\ UNCHANGED <<now, localStorage, pendingSave, nextUuid, writeLog, appVars, lastResult, outputGen, emailLastIndex, questions>>

TimerDue == timeoutId # <<>> /\ now >= timeoutId[1]

\* the debounced function runs: saveDraft(stateRef.current.id, stateRef.current)
FireAutoSave ==
  /\ mounted = "hook"
  /\ Quiescent
  /\ TimerDue
  /\ Len(pendingSave) < MaxPendingSaves
  /\ timeoutId' = <<>>
  /\ pendingSave' =
       IF enableDrafts /\ autoSave
       THEN Append(pendingSave,
                   [kind |-> "auto", stale |-> FALSE, current |-> wizardState,
                    p |-> saveDraftBegin(stateRef.id, stateRef, now)])
       ELSE pendingSave
  /\ UNCHANGED <<mounted, now, localStorage, wizardState, queuedState, stateDirty,
                 validationErrors, queuedErrors, stateRef, nextUuid, turnOps,
                 lastCall, writeLog, appVars, lastResult, outputGen, emailLastIndex, questions>>

Without(seq, i) == SubSeq(seq, 1, i - 1) \o SubSeq(seq, i + 1, Len(seq))

\* the checksum of a pending save arrives: the draft is written, and on
\* success setWizardState(prev => ({...prev, draftSaved: true}))
FinishSave(i) ==
  LET s == pendingSave[i]
      r == saveDraftFinish(s.p, localStorage, now)
  IN /\ mounted = "hook"
     /\ Quiescent
     /\ pendingSave' = Without(pendingSave, i)
     /\ localStorage' = r.storage
     /\ IF r.ok
        THEN /\ Queue([queuedState EXCEPT !.draftSaved = TRUE], TRUE)
             /\ writeLog' =
                  IF s.kind = "auto"
                  THEN [n |-> IF s.stale THEN writeLog.n ELSE writeLog.n + 1,
                        last |-> <<[data |-> JSONparse(getItem(r.storage, DraftKey(s.p.wizardId))).data,
                                    current |-> PlainState(s.current)]>>]
                  ELSE writeLog
        ELSE UNCHANGED <<queuedState, stateDirty, writeLog>>
     /\ UNCHANGED <<mounted, now, wizardState, validationErrors, queuedErrors,
                    stateRef, timeoutId, nextUuid, turnOps, lastCall, appVars,
                    lastResult, outputGen, emailLastIndex, questions>>

\* time passes between event turns; a due timer runs before more time passes
HookTick ==
  /\ mounted = "hook"
  /\ Quiescent
  /\ ~TimerDue
  /\ now < MaxTicks * TickMs
  /\ now' = now + TickMs
  /\ UNCHANGED <<mounted, localStorage, hookVars, appVars, lastResult, outputGen, emailLastIndex, questions>>

\* the handlers called by a user who answers and navigates, each turn
\* followed by its render; no time passes
NextNav ==
  \/ \E q \in EditIds : \E v \in AnswerInputs(FindById(q)[1]) : setAnswer(q, v)
  \/ wizardState.currentStep \in NextFrom /\ NextStep
  \/ wizardState.currentStep \in PrevFrom /\ previousStep
  \/ \E step \in GoToSteps : goToStep(step)
  \/ \E id \in LoadIds : hookLoadDraft(id)
  \/ reset
  \/ complete
  \/ Render

\* a user who types into the first question and saves, while time passes,
\* the auto-save timer fires and the writes complete
NextAuto ==
  \/ \E v \in AnswerInputs(FindById("purpose")[1]) : setAnswer("purpose", v)
  \/ saveDraft
  \/ Render
  \/ FireAutoSave
  \/ \E i \in 1..Len(pendingSave) : FinishSave(i)
  \/ HookTick

\* a user who resumes the earlier session, edits the first question and
\* completes, while time passes, the auto-save timer fires and the writes
\* complete
NextComplete ==
  \/ setAnswer("purpose", Str(<<"a">>))
  \/ hookLoadDraft("uuid-0")
  \/ complete
  \/ Render
  \/ FireAutoSave
  \/ \E i \in 1..Len(pendingSave) : FinishSave(i)
  \/ HookTick

\* a user who resumes, answers the first question, saves by hand, goes on and
\* completes, several handlers within one event turn; the writes complete
NextOrdering ==
  \/ \E v \in {Str(<<" ">>), Str(<<"a">>)} : setAnswer("purpose", v)
  \/ wizardState.currentStep \in {1, 14} /\ NextStep
  \/ complete
  \/ ~HasItem(localStorage, DraftKey(wizardState.id)) /\ saveDraft   \* saves once
  \/ hookLoadDraft("uuid-0")
  \/ \E i \in 1..Len(pendingSave) : FinishSave(i)
  \/ Render

\* input is given while the clock leaves the timer it arms time to fire
TimeToSave == now + autoSaveInterval <= MaxTicks * TickMs

\* the clock ticks once the checksum of a pending write has arrived, which
\* takes far less than a tick
SettledTick == pendingSave = <<>> /\ HookTick

\* a user who answers the first question once and goes on to the second,
\* then leaves the page open: renders, timers, writes and the clock
NextSettling ==
  \/ /\ TimeToSave /\ queuedState.answers["purpose"] = Undefined
     /\ \E v \in {Str(<<"a">>), Str(<<"a@b.jp">>)} : setAnswer("purpose", v)
  \/ TimeToSave /\ wizardState.currentStep = 1 /\ NextStep
  \/ Render
  \/ FireAutoSave
  \/ \E i \in 1..Len(pendingSave) : FinishSave(i)
  \/ SettledTick

-----------------------------------------------------------------------------
(* App: the component state, its draft keys and timers.  Every UI event is  *)
(* followed by its render and effects, so an action is the event, the       *)
(* re-render and the auto-save effect on [answers, currentStep].            *)

DRAFT_KEY == <<"", "business-improvement-draft">>
DRAFT_TIMESTAMP_KEY == <<"", "business-improvement-draft-timestamp">>

LastIndex == Len(WIZARD_QUESTIONS) - 1        \* WIZARD_QUESTIONS.length - 1

AppState(step, answers) ==
  [currentStep |-> step, answers |-> answers, showResult |-> FALSE, isGenerating |-> FALSE]

\* !value
Falsy(value) == value.t = "undefined" \/ (value.t = "string" /\ value.v = <<>>)

\* the effect on [answers, currentStep]: the old timer is cleared, and a new
\* one is set with this render's saveDraft when there is any answer
AutoSaveEffect(a, t) ==
  IF Keys(a.answers) # {}
  THEN <<[deadline |-> t + 2000, currentStep |-> a.currentStep, answers |-> a.answers]>>
  ELSE <<>>

\* App.loadDraft: [restored, app, storage]
appLoadDraft(a, storage, t) ==
  IF HasItem(storage, DRAFT_KEY) /\ HasItem(storage, DRAFT_TIMESTAMP_KEY)
  THEN LET saveTime == getTime(getItem(storage, DRAFT_TIMESTAMP_KEY)[2])
           parsed == JSONparse(getItem(storage, DRAFT_KEY))
       IN IF (t - saveTime) < 24 * HourMs              \* hoursDiff < 24
          THEN [restored |-> TRUE, storage |-> storage,
                app |-> [a EXCEPT !.currentStep = parsed.currentStep,
                                  !.answers = parsed.answers]]
          ELSE [restored |-> FALSE, app |-> a,
                storage |-> removeItem(removeItem(storage, DRAFT_KEY), DRAFT_TIMESTAMP_KEY)]
  ELSE [restored |-> FALSE, app |-> a, storage |-> storage]

\* the saveDraft closure of a render
appSaveDraft(closure, storage, t) ==
  LET draftData == [currentStep |-> closure.currentStep, answers |-> closure.answers,
                    timestamp |-> toISOString(DateOf(t))]
  IN setItem(setItem(storage, DRAFT_KEY, <<"json", draftData>>),
             DRAFT_TIMESTAMP_KEY, <<"text", toISOString(DateOf(t))>>)

currentQuestion == WIZARD_QUESTIONS[app.currentStep + 1]

FormShown == mounted = "app" /\ ~app.showResult /\ ~app.isGenerating

\* what the inputs of WizardQuestion hand to onChange
AppInputs(question, value) ==
  IF question.type = "multiple-choice"
  THEN LET currentValues == IF value.t = "array" THEN value.v ELSE <<>>
           option == question.options[1]
       IN {IF option \in Range(currentValues)
           THEN Arr(SelectSeq(currentValues, LAMBDA v : v # option))
           ELSE Arr(Append(currentValues, option))}
  ELSE IF question.type = "single-choice"
  THEN {Str(<<question.options[1]>>)}
  ELSE {Str(<<>>), Str(<<" ">>), Str(<<"a">>)}

AppEditIds == {"purpose", "data_format"}

\* the steps at which the user is taken to press the back button
BackFrom == {1, 12, 13, 14}

handleAnswer(questionId, answer) ==
  LET a == [app EXCEPT !.answers[questionId] = answer]
  IN /\ FormShown
     /\ app' = a
     /\ appTimer' = AutoSaveEffect(a, now)
     /\ UNCHANGED <<mounted, now, localStorage, hookVars, finishTimer, lastResult, outputGen, emailLastIndex, questions>>

\* the next button's disabled attribute
NextDisabled(a) ==
  LET q == WIZARD_QUESTIONS[a.currentStep + 1]
  IN q.required /\ Falsy(a.answers[q.id])

handleNext ==
  /\ FormShown
  /\ ~NextDisabled(app)
  /\ IF app.currentStep < LastIndex
     THEN LET a == [app EXCEPT !.currentStep = @ + 1]
          IN /\ app' = a
             /\ appTimer' = AutoSaveEffect(a, now)
             /\ UNCHANGED finishTimer
     ELSE /\ app' = [app EXCEPT !.isGenerating = TRUE]        \* handleFinish
          /\ finishTimer' = <<now + 3000>>
          /\ UNCHANGED appTimer
  /\ UNCHANGED <<mounted, now, localStorage, hookVars, lastResult, outputGen, emailLastIndex, questions>>

handlePrev ==
  /\ FormShown
  /\ app.currentStep # 0                                      \* disabled at step 0
  /\ app.currentStep \in BackFrom
  /\ IF app.currentStep > 0
     THEN LET a == [app EXCEPT !.currentStep = @ - 1]
          IN app' = a /\ appTimer' = AutoSaveEffect(a, now)
     ELSE UNCHANGED <<app, appTimer>>
  /\ UNCHANGED <<mounted, now, localStorage, hookVars, finishTimer, lastResult, outputGen, emailLastIndex, questions>>

\* handleFinish's timeout
FinishGenerating ==
  /\ mounted = "app"
  /\ finishTimer # <<>> /\ now >= finishTimer[1]
  /\ finishTimer' = <<>>
  /\ app' = [app EXCEPT !.isGenerating = FALSE, !.showResult = TRUE]
  /\ UNCHANGED <<mounted, now, localStorage, hookVars, appTimer, lastResult, outputGen, emailLastIndex, questions>>

\* the "start over" button of the result screen
appReset ==
  LET a == [app EXCEPT !.currentStep = 0, !.answers = NoAnswers, !.showResult = FALSE]
  IN /\ mounted = "app"
     /\ app.showResult
     /\ app' = a
     /\ appTimer' = AutoSaveEffect(a, now)
     /\ UNCHANGED <<mounted, now, localStorage, hookVars, finishTimer, lastResult, outputGen, emailLastIndex, questions>>

\* the auto-save timer runs the saveDraft it was set with
AppAutoSave ==
  /\ mounted = "app"
  /\ appTimer # <<>> /\ now >= appTimer[1].deadline
  /\ localStorage' = appSaveDraft(appTimer[1], localStorage, now)
  /\ appTimer' = <<>>
  /\ lastResult' = [op |-> "appSaveDraft", result |-> TRUE,
                    data |-> <<[currentStep |-> app.currentStep, answers |-> app.answers]>>]
  /\ UNCHANGED <<mounted, now, hookVars, app, finishTimer, outputGen, emailLastIndex, questions>>

\* the page is loaded again after `away` ms: fresh component state, then the
\* mount effects (loadDraft, auto-save effect) and the render they cause
AppMounted(storage, t) ==
  LET r == appLoadDraft(AppState(0, NoAnswers), storage, t)
  IN [app |-> r.app, storage |-> r.storage, timer |-> AutoSaveEffect(r.app, t),
      restored |-> r.restored]

AwayTimes == {0, 24 * HourMs}

AppReload(away) ==
  LET m == AppMounted(localStorage, now + away)
  IN /\ mounted = "app"
     /\ now < MaxReloads * 24 * HourMs
     /\ now' = now + away
     /\ app' = m.app
     /\ localStorage' = m.storage
     /\ appTimer' = m.timer
     /\ finishTimer' = <<>>
     /\ lastResult' = [op |-> "appLoadDraft", result |-> m.restored, data |-> <<>>]
     /\ UNCHANGED <<mounted, hookVars, outputGen, emailLastIndex, questions>>

AppTimerDue ==
  \/ appTimer # <<>> /\ now >= appTimer[1].deadline
  \/ finishTimer # <<>> /\ now >= finishTimer[1]

AppTick ==
  /\ mounted = "app"
  /\ ~AppTimerDue
  /\ (now % (24 * HourMs)) < MaxTicks * TickMs
  /\ now' = now + TickMs
  /\ UNCHANGED <<mounted, localStorage, hookVars, appVars, lastResult, outputGen, emailLastIndex, questions>>

NextApp ==
  \/ \E v \in AppInputs(currentQuestion, app.answers[currentQuestion.id]) :
        /\ currentQuestion.id \in AppEditIds
        /\ handleAnswer(currentQuestion.id, v)
  \/ handleNext
  \/ handlePrev
  \/ FinishGenerating
  \/ appReset
  \/ AppAutoSave
  \/ \E away \in AwayTimes : AppReload(away)
  \/ AppTick

-----------------------------------------------------------------------------
(* DraftStorageManager called directly                                      *)

ValidAnswer(question) ==
  IF question.type = "multiple-choice" THEN Arr(<<question.options[1]>>)
  ELSE IF question.type = "single-choice" THEN Str(<<question.options[1]>>)
  ELSE Str(<<"a">>)

AllAnswered == [q \in QuestionIds |-> ValidAnswer(FindById(q)[1])]

\* the answers of a session that has reached the given step
AnsweredBefore(step) ==
  [q \in QuestionIds |->
     IF FindById(q)[1].step < step THEN ValidAnswer(FindById(q)[1]) ELSE Undefined]

\* wizard states handed to saveDraft: a complete one with an e-mail address
\* in an answer, a mid-way one restored from a draft (ISO timestamps), and
\* one whose last answer is a number that is not finite
SampleStates ==
  { [NewWizardState("uuid-2", 0) EXCEPT
       !.currentStep = 15, !.currentLayer = 3,
       !.answers = [AllAnswered EXCEPT !["purpose"] = Str(<<"a", " ", "a@b.jp">>)],
       !.lastModified = DateOf(TickMs), !.isComplete = TRUE],
    PlainState([NewWizardState("uuid-1", 0) EXCEPT
       !.currentStep = 7, !.currentLayer = 2, !.answers = AnsweredBefore(7),
       !.draftSaved = TRUE]),
    [NewWizardState("uuid-1", 0) EXCEPT
       !.answers = [NoAnswers EXCEPT !["timeline"] = Num("Infinity")]] }

SaveIds == {"uuid-1"}
HarnessIds == {"uuid-1", "uuid-2", "legacy"}

Result(op, id, t, result, data, before, saved) ==
  [op |-> op, id |-> id, at |-> t, result |-> result, data |-> data,
   before |-> before, saved |-> saved]

NoResult == Result("none", "", 0, FALSE, <<>>, <<>>, <<>>)

StoredBefore(id) ==
  IF HasItem(localStorage, DraftKey(id)) THEN <<getItem(localStorage, DraftKey(id))>> ELSE <<>>

storageFrame == <<mounted, wizardState, queuedState, stateDirty, validationErrors,
                  queuedErrors, stateRef, timeoutId, nextUuid, turnOps, lastCall,
                  writeLog, appVars, outputGen, emailLastIndex, questions>>

\* saveDraft(id, ws) is called and awaits the checksum
CallSaveDraft(id, ws) ==
  /\ mounted = "storage"
  /\ Len(pendingSave) < MaxPendingSaves
  /\ pendingSave' = Append(pendingSave,
                           [kind |-> "direct", stale |-> FALSE, current |-> ws,
                            p |-> saveDraftBegin(id, ws, now)])
  /\ UNCHANGED <<now, localStorage, lastResult, storageFrame>>

\* ... and completes
ReturnSaveDraft(i) ==
  LET s == pendingSave[i]
      r == saveDraftFinish(s.p, localStorage, now)
  IN /\ mounted = "storage"
     /\ pendingSave' = Without(pendingSave, i)
     /\ localStorage' = r.storage
     /\ lastResult' = Result("saveDraft", s.p.wizardId, s.p.now, r.ok, <<>>,
                             StoredBefore(s.p.wizardId), <<s.p.wizardState>>)
     /\ UNCHANGED <<now, storageFrame>>

CallLoadDraft(id) ==
  LET r == loadDraft(id, localStorage, now)
      afterSave == /\ lastResult.op = "saveDraft" /\ lastResult.id = id
                   /\ lastResult.result = TRUE
  IN /\ mounted = "storage"
     /\ localStorage' = r.storage
     /\ lastResult' = Result("loadDraft", id, now, r.result, r.data, StoredBefore(id),
                             IF afterSave THEN lastResult.saved ELSE <<>>)
     /\ UNCHANGED <<now, pendingSave, storageFrame>>

CallListDrafts ==
  LET r == listDrafts(localStorage, now)
  IN /\ mounted = "storage"
     /\ localStorage' = r.storage
     /\ lastResult' = Result("listDrafts", "", now, TRUE, r.drafts, <<localStorage>>, <<>>)
     /\ UNCHANGED <<now, pendingSave, storageFrame>>

CallCleanupExpiredDrafts ==
  LET r == cleanupExpiredDraftsSync(localStorage, now)
  IN /\ mounted = "storage"
     /\ localStorage' = r.storage
     /\ lastResult' = Result("cleanupExpiredDrafts", "", now, r.cleanedCount, <<>>,
                             <<localStorage>>, <<>>)
     /\ UNCHANGED <<now, pendingSave, storageFrame>>

CallDeleteDraft(id) ==
  /\ mounted = "storage"
  /\ localStorage' = deleteDraft(id, localStorage)
  /\ lastResult' = Result("deleteDraft", id, now, TRUE, <<>>, StoredBefore(id), <<>>)
  /\ UNCHANGED <<now, pendingSave, storageFrame>>

StorageTick ==
  /\ mounted = "storage"
  /\ now < MaxDays * 24 * HourMs
  /\ now' = now + 24 * HourMs
  /\ UNCHANGED <<localStorage, pendingSave, lastResult, storageFrame>>

NextStorage ==
  \/ \E id \in SaveIds : \E ws \in SampleStates : CallSaveDraft(id, ws)
  \/ \E i \in 1..Len(pendingSave) : ReturnSaveDraft(i)
  \/ \E id \in HarnessIds : CallLoadDraft(id)
  \/ CallListDrafts
  \/ CallCleanupExpiredDrafts
  \/ \E id \in HarnessIds : CallDeleteDraft(id)
  \/ StorageTick

-----------------------------------------------------------------------------
(* useOutputGeneration: texts are sequences of characters; a Japanese       *)
(* character is written as one romanised token.                             *)

enableStructuredDataValidation == TRUE

\* answers[key] of a JavaScript object: undefined when the key is absent
AnswerAt(answers, key) == IF key \in DOMAIN answers THEN answers[key] ELSE Undefined

\* Object.keys(answers)
ObjectKeys(answers) == {k \in DOMAIN answers : answers[k] # Undefined}

\* answers[key] is truthy
Truthy(answers, key) == ~Falsy(AnswerAt(answers, key))

\* String(answers[key] || '')
TextAt(answers, key) ==
  IF Truthy(answers, key) THEN StringOf(AnswerAt(answers, key)) ELSE <<>>

slice(s, n) == SubSeq(s, 1, IF Len(s) < n THEN Len(s) ELSE n)

\* text.includes(term)
includes(text, term) ==
  \E i \in 1..(Len(text) - Len(term) + 1) : SubSeq(text, i, i + Len(term) - 1) = term

RECURSIVE JoinWith(_, _)
JoinWith(parts, sep) ==
  IF parts = <<>> THEN <<>>
  ELSE IF Len(parts) = 1 THEN parts[1]
  ELSE parts[1] \o sep \o JoinWith(Tail(parts), sep)

\* faulty variant: only the comma splits
RECURSIVE splitTrimCommaOnly(_, _)
splitTrimCommaOnly(text, acc) ==
  IF text = <<>> THEN <<trim(acc)>>
  ELSE IF Head(text) = "," THEN <<trim(acc)>> \o splitTrimCommaOnly(Tail(text), <<>>)
  ELSE splitTrimCommaOnly(Tail(text), Append(acc, Head(text)))

\* text.split(/[、,]/).map(s => s.trim())
RECURSIVE splitTrim(_, _)
splitTrim(text, acc) ==
  IF text = <<>> THEN <<trim(acc)>>
  ELSE IF Head(text) \in {",", "touten"} THEN <<trim(acc)>> \o splitTrim(Tail(text), <<>>)
  ELSE splitTrim(Tail(text), Append(acc, Head(text)))

\* array.filter(Boolean) over texts: the empty ones are dropped
filterBoolean(parts) == SelectSeq(parts, LAMBDA part : part # <<>>)

SummarySuffix ==
  <<"wo", "moku", "teki", "to", "shi", "ta", "gyou", "mu", "kai", "zen",
    "si", "su", "te", "mu2">>

commonTerms ==
  << <<"ji", "dou", "ka">>, <<"kou", "ritsu", "ka">>, <<"kai", "zen">>,
     <<"si", "su", "te", "mu2">>, <<"de", "chouon", "ta2">>, <<"kan", "ri">>,
     <<"sho", "ri">>, <<"bun", "seki">>, <<"re", "po", "chouon", "to2">>,
     <<"da", "tsu", "si", "yu", "bo", "chouon", "do">>, <<"ren", "kei">> >>

\* faulty variant: the confidence grows with the generations made before
generateSummaryCounting(answers, catalog) ==
  [text |-> slice(TextAt(answers, "layer1_purpose"), 100),
   keyTerms |-> <<>>,
   confidence |-> <<IF outputGen.lastWizardStateRef = <<>> THEN 0 ELSE 1, Len(catalog)>>]

generateSummary(answers, catalog) ==
  LET purpose == TextAt(answers, "layer1_purpose")
      kpi == TextAt(answers, "layer1_kpi")
      actors == TextAt(answers, "layer2_actors")
      ui == TextAt(answers, "layer3_ui")
      withPurpose == slice(purpose, 100)
      withKpi == IF ~Truthy(answers, "layer1_kpi") THEN withPurpose
                 ELSE IF withPurpose # <<>>
                      THEN withPurpose \o <<" ", "(">> \o slice(kpi, 50) \o <<")">>
                      ELSE slice(kpi, 100)
      padded == IF Len(withKpi) < 50 THEN withKpi \o SummarySuffix ELSE withKpi
      summaryText == IF Len(padded) > 500 THEN slice(padded, 497) \o <<".", ".", ".">>
                     ELSE padded
      keys == <<"layer1_purpose", "layer1_kpi", "layer2_actors", "layer3_ui">>
      present == SelectSeq(keys, LAMBDA key : Truthy(answers, key))
      allText == JoinWith([i \in 1..Len(present) |-> TextAt(answers, present[i])], <<" ">>)
      answered == Cardinality(ObjectKeys(answers))
  IN [text |-> summaryText,
      keyTerms |-> SelectSeq(commonTerms, LAMBDA term : includes(allText, term)),
      \* Math.min(answered / total, 1.0) as a fraction
      confidence |-> <<IF answered < Len(catalog) THEN answered ELSE Len(catalog),
                       Len(catalog)>>]

\* an optional field: <<>> is undefined, <<list>> a list
generateStructuredData(answers) ==
  LET text(key) == TextAt(answers, key)
      one(key) == IF Truthy(answers, key) THEN <<text(key)>> ELSE <<>>
      labelled(label, key) ==
        IF Truthy(answers, key) THEN label \o <<":", " ">> \o text(key) ELSE <<>>
  IN [purpose |->
        [primary |-> text("layer1_purpose"),
         secondary |-> IF Truthy(answers, "layer1_constraints")
                       THEN << one("layer1_constraints") >> ELSE <<>>],
      stakeholders |->
        [primary |-> IF Truthy(answers, "layer2_actors")
                     THEN splitTrim(text("layer2_actors"), <<>>) ELSE <<>>,
         secondary |-> IF Truthy(answers, "layer2_input_data")
                       THEN << splitTrim(text("layer2_input_data"), <<>>) >> ELSE <<>>],
      requirements |->
        [functional |-> filterBoolean(<<
            labelled(<<"shutsu", "ryoku">>, "layer2_output_data"),
            labelled(<<"U", "I">>, "layer3_ui"),
            labelled(<<"ji", "dou", "ka">>, "layer3_automation")>>),
         nonFunctional |-> filterBoolean(<<
            labelled(<<"sei", "nou", "you", "ken">>, "layer1_kpi"),
            labelled(<<"ken2", "gen", "kan", "ri">>, "layer3_permissions")>>)],
      constraints |-> one("layer1_constraints"),
      success_criteria |-> one("layer1_success_criteria")]

SectionOverview == <<"gai", "you2">>
SectionGoals == <<"moku", "teki", "nakaguro", "moku", "hyou">>
SectionStakeholders == <<"kan2", "kei2", "sha">>
SectionFunctional == <<"ki", "nou", "you", "ken">>
SectionNonFunctional == <<"hi", "ki", "nou", "you", "ken">>
SectionConstraints == <<"sei2", "yaku", "jou", "ken">>
SectionSuccess == <<"sei3", "kou2", "ki2", "jun">>

\* new Date().toLocaleString('ja-JP'): 16 characters or more, a different
\* text at a different time
toLocaleString(t) == [i \in 1..16 |-> IF i = 16 THEN ToString(t) ELSE "0"]

\* content.replace(/[#*\-\n]/g, '').trim().length
wordCountOf(content) ==
  Len(trim(SelectSeq(content, LAMBDA c : c \notin {"#", "*", "-", "\n"})))

generateMarkdownSpec(summary, structuredData, t) ==
  LET h2(name) == <<"#", "#", " ">> \o name
      bold(label) == <<"*", "*">> \o label \o <<":", "*", "*", " ">>
      bullets(list) == [i \in 1..Len(list) |-> <<"-", " ">> \o list[i]]
      sd == structuredData
      secondary ==
        IF sd.purpose.secondary = <<>> THEN <<>>
        ELSE JoinWith([i \in 1..Len(sd.purpose.secondary[1]) |->
                         bold(SectionConstraints) \o sd.purpose.secondary[1][i]], <<"\n">>)
      related ==
        IF sd.stakeholders.secondary # <<>> /\ Len(sd.stakeholders.secondary[1]) > 0
        THEN bold(<<"kan2", "ren", "de", "chouon", "ta2">>)
               \o JoinWith(sd.stakeholders.secondary[1], <<"touten">>)
        ELSE <<>>
      sections ==
        << <<"#", " ", "si", "su", "te", "mu2", "shi", "you", "sho2">>,
           h2(SectionOverview), summary.text,
           h2(SectionGoals),
           bold(<<"shu", "you", "moku", "teki">>) \o sd.purpose.primary,
           secondary,
           h2(SectionStakeholders),
           bold(<<"shu", "you", "kan2", "kei2", "sha">>)
             \o JoinWith(sd.stakeholders.primary, <<"touten">>),
           related,
           h2(SectionFunctional) >>
        \o bullets(sd.requirements.functional)
        \o << h2(SectionNonFunctional) >>
        \o bullets(sd.requirements.nonFunctional)
        \o << IF Len(sd.constraints) > 0 THEN h2(SectionConstraints) ELSE <<>> >>
        \o bullets(sd.constraints)
        \o << IF Len(sd.success_criteria) > 0 THEN h2(SectionSuccess) ELSE <<>> >>
        \o bullets(sd.success_criteria)
        \o << <<"-", "-", "-">>,
              <<"*", "sei4", "sei3", "nichi", "ji2", ":", " ">> \o toLocaleString(t) \o <<"*">>,
              <<"*", "ki3", "chouon", "wa", "chouon", "do", ":", " ">>
                \o JoinWith(summary.keyTerms, <<"touten">>) \o <<"*">> >>
      content == JoinWith(filterBoolean(sections), <<"\n">>)
  IN [content |-> content,
      wordCount |-> wordCountOf(content),
      sections |->
        <<SectionOverview, SectionGoals, SectionStakeholders, SectionFunctional,
          SectionNonFunctional>>
        \o (IF Len(sd.constraints) > 0 THEN <<SectionConstraints>> ELSE <<>>)
        \o (IF Len(sd.success_criteria) > 0 THEN <<SectionSuccess>> ELSE <<>>)]

validateOutputStructure(output) ==
  /\ output.summary.text # <<>>
  /\ Len(output.summary.text) >= 50
  /\ Len(output.summary.text) <= 500
  /\ output.structuredData.purpose.primary # <<>>
  /\ output.markdownSpec.content # <<>>
  /\ output.markdownSpec.wordCount >= 100

validateOutputGenerationTime(startTime, endTime) == endTime - startTime <= 5000

NoOutput == [error |-> <<>>, generatedOutput |-> <<>>, lastWizardStateRef |-> <<>>]

\* the body of generateOutput: <<output>> or the message of the error thrown
generateOutputResult(ws, catalog, t, elapsed) ==
  IF ~ws.isComplete
  THEN [output |-> <<>>, error |-> <<"Wizard must be completed before generating output">>]
  ELSE IF Cardinality(ObjectKeys(ws.answers)) < 12
  THEN [output |-> <<>>, error |-> <<"Insufficient answers provided (minimum 12 required)">>]
  ELSE LET summary == generateSummary(ws.answers, catalog)
           structuredData == generateStructuredData(ws.answers)
           output == [summary |-> summary, structuredData |-> structuredData,
                      markdownSpec |-> generateMarkdownSpec(summary, structuredData, t)]
       IN IF enableStructuredDataValidation /\ ~validateOutputStructure(output)
          THEN [output |-> <<>>, error |-> <<"Generated output failed validation">>]
          ELSE IF ~validateOutputGenerationTime(t, t + elapsed)
          THEN [output |-> <<>>, error |-> <<"Output generation exceeded 5 seconds">>]
          ELSE [output |-> <<output>>, error |-> <<>>]

\* the ids of a catalog named by layer, as generateSummary and
\* generateStructuredData read them
LayeredIds ==
  <<"layer1_purpose", "layer1_kpi", "layer1_constraints", "layer1_success_criteria",
    "layer1_target", "layer2_actors", "layer2_input_data", "layer2_output_data",
    "layer2_triggers", "layer2_as_is", "layer3_ui", "layer3_automation",
    "layer3_google_integration", "layer3_permissions", "layer3_exceptions">>

LongText(n) == Str(<<"kai", "zen">> \o [i \in 1..(n - 2) |-> "a"])

\* the first n layered questions answered with the given value
Layered(n, value) == [k \in Range(SubSeq(LayeredIds, 1, n)) |-> value]

Session(isComplete, answers) ==
  [NewWizardState("uuid-1", 0) EXCEPT
     !.currentStep = 15, !.currentLayer = 3, !.answers = answers, !.isComplete = isComplete]

\* sessions handed to generateOutput: all 15 layered questions answered at
\* length; all 15 answered briefly; 12 keys of which one is populated; 11
\* answered; the catalog of App answered in full, complete and not complete
OutputSessions ==
  { Session(TRUE, [Layered(15, Str(<<"a", ",", " ", "b">>)) EXCEPT
                     !["layer1_purpose"] = LongText(60)]),
    Session(TRUE, Layered(15, Str(<<"a">>))),
    Session(TRUE, [Layered(12, Str(<<>>)) EXCEPT !["layer1_purpose"] = LongText(100)]),
    Session(TRUE, [Layered(11, Str(<<"a">>)) EXCEPT !["layer1_purpose"] = LongText(60)]),
    Session(TRUE, AllAnswered),
    Session(FALSE, AllAnswered) }

\* how long a generation takes, in ms
Durations == {0, 1000, 5001}

\* generateOutput(wizardState, questions), the state updates batched
generateOutputCall(op, ws, elapsed) ==
  LET r == generateOutputResult(ws, questions, now, elapsed)
      repeated == lastResult.op \in {"generateOutput", "regenerateWithOptions"}
                     /\ lastResult.session = <<ws>>
  IN /\ now + elapsed <= MaxOutputMs
     /\ now' = now + elapsed
     /\ outputGen' = [error |-> r.error,
                      generatedOutput |-> IF r.output # <<>> THEN r.output
                                          ELSE outputGen.generatedOutput,
                      lastWizardStateRef |-> <<ws>>]
     /\ lastResult' = [op |-> op, session |-> <<ws>>, result |-> r.output,
                       started |-> now, at |-> now + elapsed, before |-> outputGen,
                       previous |-> IF repeated
                                    THEN <<[result |-> lastResult.result,
                                            at |-> lastResult.at,
                                            inTime |-> lastResult.at - lastResult.started <= 5000]>>
                                    ELSE <<>>]

outputFrame == <<mounted, localStorage, hookVars, appVars, emailLastIndex, questions>>

generateOutput(ws, elapsed) ==
  /\ mounted = "output"
  /\ generateOutputCall("generateOutput", ws, elapsed)
  /\ UNCHANGED outputFrame

regenerateWithOptions(elapsed) ==
  /\ mounted = "output"
  /\ IF outputGen.lastWizardStateRef = <<>>
     THEN /\ outputGen' = [outputGen EXCEPT
                             !.error = <<"No previous generation data available">>]
          /\ lastResult' = [op |-> "regenerateWithOptions", session |-> <<>>,
                            result |-> <<>>, started |-> now, at |-> now,
                            before |-> outputGen, previous |-> <<>>]
          /\ UNCHANGED now
     ELSE generateOutputCall("regenerateWithOptions", outputGen.lastWizardStateRef[1], elapsed)
  /\ UNCHANGED outputFrame

clearOutput ==
  /\ mounted = "output"
  /\ outputGen' = [outputGen EXCEPT !.generatedOutput = <<>>, !.error = <<>>]
  /\ lastResult' = [op |-> "clearOutput", session |-> <<>>, result |-> <<>>,
                    started |-> now, at |-> now, before |-> outputGen,
                    previous |-> <<>>]
  /\ UNCHANGED <<now, outputFrame>>

\* the characters of the answers handed to generateStructuredData: a
\* letter, a kanji, the comma, the ideographic comma and the space
ActorChars == {"a", "bu", ",", "touten", " "}
MaxActorsLen == 4

RECURSIVE TextsUpTo(_)
TextsUpTo(n) ==
  IF n = 0 THEN {<<>>}
  ELSE LET shorter == TextsUpTo(n - 1)
       IN shorter \cup {Append(t, c) : t \in shorter, c \in ActorChars}

\* answer maps with the stakeholder question absent or answered in free text
ActorsAnswers ==
  {Layered(5, Str(<<"a">>))}
  \cup {Layered(5, Str(<<"a">>)) @@ [k \in {"layer2_actors"} |-> Str(text)] :
          text \in TextsUpTo(MaxActorsLen)}

\* generateStructuredData(wizardState, questions), called on its own
CallGenerateStructuredData(answers) ==
  /\ mounted = "output"
  /\ lastResult' = [op |-> "generateStructuredData", input |-> answers,
                    result |-> generateStructuredData(answers)]
  /\ UNCHANGED <<now, outputGen, outputFrame>>

\* answer maps whose purpose and KPI have the given lengths
SummaryLengths == {0, 1, 35, 36, 49, 50, 100, 120}
TextOfLength(n) == [i \in 1..n |-> "a"]
SummaryAnswers ==
  {[k \in {"layer1_purpose", "layer1_kpi"} |->
      Str(TextOfLength(IF k = "layer1_purpose" THEN p ELSE kpi))] :
     p \in SummaryLengths, kpi \in SummaryLengths}
  \cup {[k \in {} |-> Undefined]}

\* generateSummary(wizardState, questions), called on its own
CallGenerateSummary(answers) ==
  /\ mounted = "output"
  /\ lastResult' = [op |-> "generateSummary", input |-> answers,
                    result |-> generateSummary(answers, questions)]
  /\ UNCHANGED <<now, outputGen, outputFrame>>

NextStructured ==
  \/ \E answers \in ActorsAnswers : CallGenerateStructuredData(answers)
  \/ \E answers \in SummaryAnswers : CallGenerateSummary(answers)

NextOutput ==
  \/ \E ws \in OutputSessions : \E elapsed \in Durations : generateOutput(ws, elapsed)
  \/ \E elapsed \in Durations : regenerateWithOptions(elapsed)
  \/ clearOutput

-----------------------------------------------------------------------------
(* The validators called directly.  PII_PATTERNS.email is a global (/g)     *)
(* pattern shared by validateEmail and detectPII: exec and test start at    *)
(* its lastIndex and move it.                                               *)

\* pattern.exec(text) for the e-mail pattern with the given lastIndex
execEmail(text, lastIndex) ==
  LET hits == {i \in (lastIndex + 1)..Len(text) : text[i] \in PIITokens}
      first == CHOOSE i \in hits : \A j \in hits : i <= j
  IN IF hits = {} THEN [found |-> FALSE, start |-> 0, lastIndex |-> 0]
     ELSE [found |-> TRUE, start |-> first - 1, lastIndex |-> first]

\* the while loop of detectPII for the e-mail pattern: exec until null
RECURSIVE execAll(_, _)
execAll(text, lastIndex) ==
  LET match == execEmail(text, lastIndex)
  IN IF ~match.found THEN <<>>
     ELSE <<[type |-> "email", start |-> match.start, end |-> match.lastIndex,
             value |-> text[match.lastIndex]]>>
          \o execAll(text, match.lastIndex)

\* PIIDetector.detectPII(text); the confidence is in tenths
detectPIIText(text, lastIndex) ==
  LET locations == execAll(text, lastIndex)
  IN [hasPII |-> Len(locations) > 0,
      types |-> IF Len(locations) > 0 THEN <<"email">> ELSE <<>>,
      confidence |-> IF 3 * Len(locations) < 10 THEN 3 * Len(locations) ELSE 10,
      locations |-> locations]

\* the texts handed to validateEmail and detectPII
EmailTexts ==
  { <<"a@b.jp">>, <<"x", " ", "a@b.jp">>, <<"a@b.jp", " ", "a@b.jp">>, <<"x">>, <<>> }

\* questions handed to validateAnswer: those of the catalog, and a required
\* and an optional one shown only when "purpose" is answered
ConditionalQuestions ==
  { [Q("detail", 1, 2, "long-text", TRUE, <<>>) EXCEPT !.showIf = <<"purpose">>],
    [Q("note", 1, 2, "long-text", FALSE, <<>>) EXCEPT !.showIf = <<"purpose">>] }

\* a required and an optional question that depend on "purpose"
DependentQuestions ==
  { [Q("followup", 1, 2, "long-text", TRUE, <<>>) EXCEPT !.dependsOn = <<"purpose">>],
    [Q("remark", 1, 2, "long-text", FALSE, <<>>) EXCEPT !.dependsOn = <<"purpose">>] }

ValidatorQuestions ==
  {questions[1], questions[4], questions[5]} \cup ConditionalQuestions
    \cup DependentQuestions

ValidatorValues ==
  {Undefined, Str(<<>>), Str(<<" ">>), Str(<<"a">>), Str(<<"budget1">>), Arr(<<>>)}

ValidatorAnswers == {NoAnswers, AllAnswered}

ValidatorResult(op, input, result, fresh) ==
  [op |-> op, input |-> input, result |-> result, fresh |-> fresh]

validatorFrame == <<mounted, now, localStorage, hookVars, appVars, outputGen, questions>>

\* AnswerValidator.validateEmail(value)
validateEmail(value) ==
  LET match == execEmail(value, emailLastIndex)
  IN /\ mounted = "validators"
     /\ emailLastIndex' = match.lastIndex
     /\ lastResult' = ValidatorResult("validateEmail", <<value>>, match.found,
                                      execEmail(value, 0).found)
     /\ UNCHANGED validatorFrame

\* PIIDetector.detectPII(text): the loop ends on a null match, which leaves
\* lastIndex at 0
CallDetectPII(text) ==
  /\ mounted = "validators"
  /\ emailLastIndex' = 0
  /\ lastResult' = ValidatorResult("detectPII", <<text>>,
                                   detectPIIText(text, emailLastIndex),
                                   detectPIIText(text, 0))
  /\ UNCHANGED validatorFrame

\* QuestionValidator.validateAnswer(question, value, allAnswers)
CallValidateAnswer(question, value, allAnswers) ==
  /\ mounted = "validators"
  /\ lastResult' = ValidatorResult("validateAnswer", <<question, value, allAnswers>>,
                                   validateAnswer(question, value, allAnswers),
                                   validateAnswer(question, value, allAnswers))
  /\ UNCHANGED <<validatorFrame, emailLastIndex>>

\* const layerCounts = [0, 0, 0]; questions.forEach(q => layerCounts[q.layer - 1]++)
layerCounts(qs) ==
  [l \in 1..3 |-> Cardinality({i \in 1..Len(qs) : qs[i].layer = l})]

\* the forEach over Object.values(answers) of validateForm; the values are
\* taken in the order of the catalog, and every detectPII call leaves
\* lastIndex at 0
RECURSIVE piiDetectedFrom(_, _, _, _)
piiDetectedFrom(qs, answers, i, lastIndex) ==
  IF i > Len(qs) THEN FALSE
  ELSE LET value == answers[qs[i].id]
       IN IF value.t = "string"
          THEN \/ detectPIIText(value.v, lastIndex).hasPII
               \/ piiDetectedFrom(qs, answers, i + 1, 0)
          ELSE piiDetectedFrom(qs, answers, i + 1, lastIndex)

\* what FormValidator.validateForm(questions, answers) resolves to, or the
\* error it rejects with
validateFormResult(qs, answers, lastIndex) ==
  LET errors == validateAllAnswers(qs, answers)
      counts == layerCounts(qs)
  IN IF counts[1] # 5 \/ counts[2] # 5 \/ counts[3] # 5
     THEN [thrown |-> "ConstitutionalViolationError"]
     ELSE [isValid |-> DOMAIN errors = {},
           errors |-> errors,
           piiDetected |-> piiDetectedFrom(qs, answers, 1, lastIndex),
           constitutionalCompliance |-> TRUE]

\* FormValidator.validateForm(questions, answers), called beside the hook
validateForm(qs, answers) ==
  /\ mounted = "hook"
  /\ emailLastIndex' = IF \E i \in 1..Len(qs) : answers[qs[i].id].t = "string"
                       THEN 0 ELSE emailLastIndex
  /\ lastResult' = [op |-> "validateForm", input |-> <<qs, answers>>,
                    result |-> validateFormResult(qs, answers, emailLastIndex)]
  /\ UNCHANGED validatorFrame

\* the catalogs handed to the hook: WIZARD_QUESTIONS, one without its last
\* question (5, 5 and 4), and one whose sixth question is put into layer 1
\* (6, 4 and 5)
Catalogs ==
  { WIZARD_QUESTIONS,
    SubSeq(WIZARD_QUESTIONS, 1, 14),
    [WIZARD_QUESTIONS EXCEPT ![6].layer = 1] }

\* a user who resumes, answers, navigates and completes, and a caller of
\* validateForm, over one of the catalogs
NextCatalog ==
  \/ \E v \in {Str(<<"a">>), Str(<<"a@b.jp">>)} : setAnswer("purpose", v)
  \/ NextStep
  \/ goToStep(Whole(14))
  \/ hookLoadDraft("uuid-0")
  \/ complete
  \/ Render
  \/ validateForm(questions, wizardState.answers)

NextValidators ==
  \/ \E value \in EmailTexts : validateEmail(value)
  \/ \E text \in EmailTexts : CallDetectPII(text)
  \/ \E question \in ValidatorQuestions : \E value \in ValidatorValues :
       \E allAnswers \in ValidatorAnswers : CallValidateAnswer(question, value, allAnswers)

-----------------------------------------------------------------------------
(* Initial states and specifications                                        *)

\* what earlier sessions left in localStorage
EarlierState ==
  [NewWizardState("uuid-0", 0) EXCEPT
     !.currentStep = 14, !.currentLayer = 3, !.answers = AllAnswered]

EarlierDraft ==
  [key |-> DraftKey("uuid-0"),
   value |-> JSONstringifyDraft(draftStorageOf(saveDraftBegin("uuid-0", EarlierState, 0)))]

\* the draft of a session that completed and then saved
CompletedDraft ==
  [key |-> DraftKey("uuid-9"),
   value |-> JSONstringifyDraft(draftStorageOf(saveDraftBegin("uuid-9",
               [EarlierState EXCEPT !.id = "uuid-9", !.currentStep = 15, !.isComplete = TRUE], 0)))]

\* a draft written without a checksum, whose layer does not fit its step
LegacyDraft ==
  [key |-> DraftKey("legacy"),
   value |-> <<"json",
               [version |-> "0.9", wizardId |-> "legacy",
                data |-> PlainState([EarlierState EXCEPT !.id = "legacy",
                                       !.currentStep = 7, !.currentLayer = 1]),
                metadata |-> [savedAt |-> toISOString(DateOf(0)),
                              expiresAt |-> toISOString(DateOf(DRAFT_RETENTION_HOURS * HourMs)),
                              checksum |-> <<>>, encrypted |-> FALSE,
                              compressionUsed |-> FALSE]]>>]

\* a draft whose data was altered after the checksum was taken
CorruptDraft ==
  [key |-> DraftKey("uuid-2"),
   value |-> <<"json",
               [JSONparse(EarlierDraft.value) EXCEPT
                  !.wizardId = "uuid-2", !.data.currentStep = 3, !.data.currentLayer = 1]>>]

GarbageDraft == [key |-> DraftKey("broken"), value |-> <<"text", "{">>]

\* a draft key whose value was emptied
EmptyDraft == [key |-> DraftKey("emptied"), value |-> EmptyText]

Preferences == [key |-> <<"", "user-preferences">>, value |-> <<"json", [language |-> "ja"]>>]

AppEarlierDraft ==
  appSaveDraft([currentStep |-> 13, answers |-> AnsweredBefore(14)], <<>>, 0)

InitHookVars ==
  /\ wizardState = NewWizardState(generate(1), 0)
  /\ queuedState = wizardState
  /\ stateDirty = "clean"
  /\ validationErrors = NoErrors
  /\ queuedErrors = NoErrors
  /\ stateRef = wizardState
  /\ timeoutId = IF autoSave THEN <<autoSaveInterval>> ELSE <<>>   \* the effect of the first render
  /\ pendingSave = <<>>
  /\ nextUuid = 1
  /\ turnOps = 0
  /\ lastCall = NoCall
  /\ writeLog = NoWrites

InitHook ==
  /\ mounted = "hook"
  /\ questions = WIZARD_QUESTIONS
  /\ now = 0
  /\ localStorage = <<EarlierDraft, CompletedDraft, LegacyDraft>>
  /\ InitHookVars
  /\ app = AppState(0, NoAnswers) /\ appTimer = <<>> /\ finishTimer = <<>>
  /\ lastResult = NoResult
  /\ outputGen = NoOutput
  /\ emailLastIndex = 0

InitApp ==
  /\ mounted = "app"
  /\ questions = WIZARD_QUESTIONS
  /\ now = 0
  /\ \E initial \in {<<>>, AppEarlierDraft} :
        LET m == AppMounted(initial, 0)
        IN /\ localStorage = m.storage
           /\ app = m.app
           /\ appTimer = m.timer
  /\ finishTimer = <<>>
  /\ InitHookVars
  /\ lastResult = NoResult
  /\ outputGen = NoOutput
  /\ emailLastIndex = 0

InitStorage ==
  /\ mounted = "storage"
  /\ questions = WIZARD_QUESTIONS
  /\ now = 0
  /\ localStorage = <<Preferences, GarbageDraft, CorruptDraft, LegacyDraft>>
  /\ InitHookVars
  /\ app = AppState(0, NoAnswers) /\ appTimer = <<>> /\ finishTimer = <<>>
  /\ lastResult = NoResult
  /\ outputGen = NoOutput
  /\ emailLastIndex = 0

\* storage orders in which drafts of other sessions were left behind
LeftoverStorages ==
  {<<Preferences, GarbageDraft, LegacyDraft, EarlierDraft>>,
   <<LegacyDraft, EarlierDraft, Preferences, GarbageDraft>>,
   <<EarlierDraft, EmptyDraft, Preferences>>}

InitListing ==
  /\ mounted = "storage"
  /\ questions = WIZARD_QUESTIONS
  /\ now = 0
  /\ localStorage \in LeftoverStorages
  /\ InitHookVars
  /\ app = AppState(0, NoAnswers) /\ appTimer = <<>> /\ finishTimer = <<>>
  /\ lastResult = NoResult
  /\ outputGen = NoOutput
  /\ emailLastIndex = 0

\* DraftStorageManager listing and cleaning what other sessions left
SpecListing == InitListing /\ [][NextStorage]_vars

\* the hook or the App under a user who answers and navigates
SpecWizard == (InitHook \/ InitApp) /\ [][NextNav \/ NextApp]_vars

\* the hook or the App while time passes and drafts are written
SpecSaving == (InitHook \/ InitApp) /\ [][NextAuto \/ NextApp]_vars

\* DraftStorageManager under direct calls
SpecStorage == InitStorage /\ [][NextStorage]_vars

\* useWizardState: resuming, completing and the auto-save timer
SpecCompleting == InitHook /\ [][NextComplete]_vars

InitOutput ==
  /\ mounted = "output"
  /\ questions = WIZARD_QUESTIONS
  /\ now = 0
  /\ localStorage = <<>>
  /\ InitHookVars
  /\ app = AppState(0, NoAnswers) /\ appTimer = <<>> /\ finishTimer = <<>>
  /\ lastResult = NoResult
  /\ outputGen = NoOutput
  /\ emailLastIndex = 0

\* generateStructuredData and generateSummary over answers of every shape
SpecStructured == InitOutput /\ [][NextStructured]_vars

InitValidators ==
  /\ mounted = "validators"
  /\ questions = WIZARD_QUESTIONS
  /\ now = 0
  /\ localStorage = <<>>
  /\ InitHookVars
  /\ app = AppState(0, NoAnswers) /\ appTimer = <<>> /\ finishTimer = <<>>
  /\ lastResult = NoResult
  /\ outputGen = NoOutput
  /\ emailLastIndex = 0

\* the validators called in any order
SpecValidators == InitValidators /\ [][NextValidators]_vars

InitCatalog ==
  /\ mounted = "hook"
  /\ questions \in Catalogs
  /\ now = 0
  /\ localStorage = <<EarlierDraft>>
  /\ InitHookVars
  /\ app = AppState(0, NoAnswers) /\ appTimer = <<>> /\ finishTimer = <<>>
  /\ lastResult = NoResult
  /\ outputGen = NoOutput
  /\ emailLastIndex = 0

\* useWizardState left alone after its input: React renders, due timers
\* fire, pending writes complete and time passes
SpecSettling ==
  /\ InitHook /\ [][NextSettling]_vars
  /\ WF_vars(Render) /\ WF_vars(FireAutoSave) /\ WF_vars(SettledTick)
  /\ WF_vars(\E i \in 1..Len(pendingSave) : FinishSave(i))

\* useWizardState: handlers dispatched one after another
SpecOrdering == InitHook /\ [][NextOrdering]_vars

\* useWizardState over a catalog of any shape
SpecCatalog == InitCatalog /\ [][NextCatalog]_vars

\* data of another application on the same origin, of the given size
OtherData(size) == [key |-> <<"", "other-app-data">>, value |-> <<"blob", size>>]

\* sizes that leave room for a small draft only, and for none
OtherDataSizes == {QuotaTotal - 1500, QuotaTotal - 100}

InitQuota ==
  /\ mounted = "storage"
  /\ questions = WIZARD_QUESTIONS
  /\ now = 0
  /\ \E size \in OtherDataSizes : localStorage = <<OtherData(size), LegacyDraft>>
  /\ InitHookVars
  /\ app = AppState(0, NoAnswers) /\ appTimer = <<>> /\ finishTimer = <<>>
  /\ lastResult = NoResult
  /\ outputGen = NoOutput
  /\ emailLastIndex = 0

\* DraftStorageManager called directly on a storage that is nearly full
SpecQuota == InitQuota /\ [][NextStorage]_vars

\* useOutputGeneration called with sessions
SpecOutput == InitOutput /\ [][NextOutput]_vars

-----------------------------------------------------------------------------
(* Properties                                                               *)

\* the layer the specification derives from a step
LayerOfStep(step) ==
  IF step \in 1..5 THEN 1 ELSE IF step \in 6..10 THEN 2 ELSE IF step \in 11..15 THEN 3 ELSE 0

EmptyAnswer(value) ==
  \/ value.t = "undefined"
  \/ value.t = "string" /\ \A i \in 1..Len(value.v) : value.v[i] = " "
  \/ value.t = "array" /\ value.v = <<>>

HasCode(errors, code) == \E k \in 1..Len(errors) : errors[k].code = code

\* C3: nextStep called while the committed step's question is required and
\* its committed answer is absent, blank after trimming or an empty list
\* returns false, queues no change of step or layer, and records a REQUIRED
\* error for that question.
C3_NextStepRefusesEmptyRequired ==
  [][ \A i \in 1..Len(questions) :
        ( /\ NextStep
          /\ wizardState.currentStep = questions[i].step
          /\ questions[i].required
          /\ EmptyAnswer(wizardState.answers[questions[i].id]) )
        => /\ lastCall' = Call("nextStep", FALSE)
           /\ queuedState'.currentStep = queuedState.currentStep
           /\ queuedState'.currentLayer = queuedState.currentLayer
           /\ HasCode(queuedErrors'[questions[i].id], "REQUIRED") ]_vars

\* nextStep has been refused on a blank answer to the first question
C3_Witness ==
  /\ mounted = "hook"
  /\ lastCall = Call("nextStep", FALSE)
  /\ wizardState.currentStep = 1
  /\ wizardState.answers["purpose"] = Str(<<" ">>)
  /\ HasCode(queuedErrors["purpose"], "REQUIRED")

\* C4: in App, handleNext neither advances the step nor starts generation
\* while the current question is required and its answer is absent, blank
\* after trimming or an empty list of selections.
C4_AppNeverAdvancesOnEmptyRequired ==
  [][ handleNext
        => ~(currentQuestion.required /\ EmptyAnswer(app.answers[currentQuestion.id])) ]_vars

\* App has moved past the first question with a blank answer to it
C4_Witness ==
  /\ mounted = "app"
  /\ app.currentStep = 1
  /\ app.answers["purpose"] = Str(<<" ">>)

\* the stored draft loadDraft(id) would restore is marked complete
StoredComplete(id) ==
  /\ HasItem(localStorage, DraftKey(id))
  /\ JSONparse(getItem(localStorage, DraftKey(id))).data.isComplete

\* validating every question against the committed answers finds no error
AllValid ==
  \A i \in 1..Len(questions) :
     validateAnswer(questions[i], wizardState.answers[questions[i].id],
                    wizardState.answers) = <<>>

\* C5 (as amended): isComplete turns from false to true only through a
\* complete() whose validation of every question against the committed
\* answers finds no error, or through loadDraft restoring a draft that was
\* stored complete; a complete() that finds an error returns false, leaves
\* isComplete as it was and publishes the error list of every question.
C5_CompleteOnlyWhenValid ==
  [][ /\ (~queuedState.isComplete /\ queuedState'.isComplete)
           => \/ lastCall' = Call("complete", TRUE) /\ AllValid
              \/ /\ lastCall' = Call("loadDraft", TRUE)
                 /\ \E id \in LoadIds : StoredComplete(id)
      /\ (complete /\ ~AllValid)
           => /\ lastCall' = Call("complete", FALSE)
              /\ queuedState'.isComplete = queuedState.isComplete
              /\ \A i \in 1..Len(questions) :
                    queuedErrors'[questions[i].id] =
                      validateAnswer(questions[i], wizardState.answers[questions[i].id],
                                     wizardState.answers) ]_vars

\* complete() has succeeded on a session that was not complete
C5_Witness ==
  /\ mounted = "hook"
  /\ lastCall = Call("complete", TRUE)
  /\ ~wizardState.isComplete /\ queuedState.isComplete

\* C5 as stated: isComplete turns true only through complete(), and a
\* complete() that finds an error leaves isComplete false.
C5_OnlyThroughComplete ==
  [][ /\ (~queuedState.isComplete /\ queuedState'.isComplete)
           => lastCall' = Call("complete", TRUE) /\ AllValid
      /\ (complete /\ ~AllValid)
           => lastCall' = Call("complete", FALSE) /\ ~queuedState'.isComplete ]_vars

\* C6: in useWizardState with auto-save on, once setAnswer has been called
\* and the user's input has stopped, at most one auto-save write reaches
\* storage until the user provides new input (writeLog.n counts the
\* auto-save writes made since the last handler call).
C6_OneWritePerBurst ==
  wizardState.answers["purpose"] # Undefined => writeLog.n <= 1

\* the auto-save of an answered question has been written, 2000 ms or more
\* after the answer
C6_Witness ==
  /\ mounted = "hook"
  /\ writeLog.n = 1
  /\ writeLog.last[1].data.answers["purpose"] = Str(<<"a">>)
  /\ now >= getTime(writeLog.last[1].data.lastModified) + autoSaveInterval

\* an auto-save's write to storage happens in this step
AutoSaveWrites ==
  \E i \in 1..Len(pendingSave) :
    /\ pendingSave[i].kind = "auto"
    /\ saveDraftFinish(pendingSave[i].p, localStorage, now).ok
    /\ FinishSave(i)

\* C11: in useWizardState, once complete() has succeeded (the committed
\* state is complete) no auto-save write reaches storage, not even from a
\* debounce timer that was pending when complete() was called.
C11_NoAutoSaveAfterComplete == [][wizardState.isComplete => ~AutoSaveWrites]_vars

\* complete() has succeeded while the debounce timer of an earlier change
\* was still pending
C11_Witness ==
  /\ mounted = "hook"
  /\ wizardState.isComplete
  /\ lastCall = NoCall
  /\ timeoutId # <<>> /\ now < timeoutId[1]

\* C7: every auto-save write persists the state that was current when its
\* timer fired: the hook's write holds the committed wizardState of that
\* moment, and App's write holds the currentStep and answers of that moment.
C7_AutoSaveWritesCurrentState ==
  /\ writeLog.last # <<>> => writeLog.last[1].data = writeLog.last[1].current
  /\ lastResult.op = "appSaveDraft"
       => LET stored == JSONparse(getItem(localStorage, DRAFT_KEY))
          IN /\ stored.currentStep = lastResult.data[1].currentStep
             /\ stored.answers = lastResult.data[1].answers

\* the hook has auto-saved an answer that replaced an earlier one
C7_Witness ==
  /\ mounted = "hook"
  /\ writeLog.last # <<>>
  /\ writeLog.last[1].data.answers["purpose"] = Str(<<"a">>)
  /\ getTime(writeLog.last[1].data.lastModified) > 0

\* every answer of the state is a value JSON can write
FiniteAnswers(ws) ==
  \A q \in DOMAIN ws.answers :
     ws.answers[q].t = "number" => ws.answers[q].v[1] \notin {"NaN", "Infinity", "-Infinity"}

\* a loadDraft(id) that directly follows a successful saveDraft(id, s), no
\* later than the expiresAt of the draft it finds
LoadedRightAfterSave ==
  /\ lastResult.op = "loadDraft"
  /\ lastResult.saved # <<>>
  /\ lastResult.before # <<>>
  /\ lastResult.at <= getTime(JSONparse(lastResult.before[1]).metadata.expiresAt)

\* the loaded data equals the saved state in id, step, layer, answers and
\* isComplete, and in its timestamps up to their ISO formatting; the draft
\* carried a checksum and loadDraft's verification of it passed
RoundTripEqual ==
  /\ lastResult.result = "data"
  /\ JSONparse(lastResult.before[1]).metadata.checksum # <<>>
  /\ LET s == lastResult.saved[1]
         d == lastResult.data[1]
     IN /\ d.id = s.id
        /\ d.currentStep = s.currentStep
        /\ d.currentLayer = s.currentLayer
        /\ d.answers = s.answers
        /\ d.isComplete = s.isComplete
        /\ getTime(d.startedAt) = getTime(s.startedAt)
        /\ getTime(d.lastModified) = getTime(s.lastModified)

\* C8 (as amended): for every wizard state s whose answers are values JSON
\* can write (no NaN, no infinite number) and every id, a successful
\* saveDraft(id, s) followed directly by loadDraft(id) before expiry returns
\* data equal to s in id, currentStep, currentLayer, answers and isComplete
\* (timestamps equal up to ISO formatting), and the checksum verification
\* passes.
C8_RoundTripOfWritableState ==
  (LoadedRightAfterSave /\ FiniteAnswers(lastResult.saved[1])) => RoundTripEqual

\* a complete state saved with Date timestamps has been loaded back at the
\* very instant its draft expires
C8_Witness ==
  /\ LoadedRightAfterSave
  /\ lastResult.result = "data"
  /\ lastResult.saved[1].isComplete
  /\ lastResult.saved[1].lastModified = DateOf(TickMs)
  /\ lastResult.at = getTime(JSONparse(lastResult.before[1]).metadata.expiresAt)

\* C8 as stated: the round trip returns equal data for every wizard state.
C8_RoundTripOfEveryState == LoadedRightAfterSave => RoundTripEqual

\* the stored text is a draft whose checksum, if it has one, matches its data
IntactDraft(text) ==
  /\ ParsesAsDraft(text)
  /\ LET draft == JSONparse(text)
     IN draft.metadata.checksum # <<>>
          => draft.metadata.checksum[1] = <<"sha256-", <<"json", draft.data>>>>

C10_ListUnexpiredSorted ==
  lastResult.op = "listDrafts"
    => LET drafts == lastResult.data
           storage == lastResult.before[1]
       IN /\ \A i \in 1..Len(drafts) :
               /\ lastResult.at <= getTime(drafts[i].expiresAt)
               /\ \E k \in 1..Len(storage) :
                     /\ storage[k].key = <<"wizard-draft-", drafts[i].wizardId>>
                     /\ storage[k].value[1] = "json"
                     /\ getTime(storage[k].value[2].metadata.expiresAt)
                          = getTime(drafts[i].expiresAt)
                     /\ getTime(storage[k].value[2].metadata.savedAt)
                          = getTime(drafts[i].savedAt)
          /\ \A i \in 1..(Len(drafts) - 1) :
               getTime(drafts[i].savedAt) >= getTime(drafts[i + 1].savedAt)

\* listDrafts has returned two drafts saved at different times
C10_Witness ==
  /\ lastResult.op = "listDrafts"
  /\ Len(lastResult.data) = 2
  /\ getTime(lastResult.data[1].savedAt) > getTime(lastResult.data[2].savedAt)

\* the entries of an answer map that hold a value: present, and not blank
\* or an empty list
Populated(answers) == {k \in DOMAIN answers : validateRequired(answers[k])}

\* the last call was a generation for a session
Generated == lastResult.op \in {"generateOutput", "regenerateWithOptions"}
               /\ lastResult.session # <<>>

\* C12: generateOutput produces no artifact unless the session is complete
\* and its answer map has at least 12 populated entries: when either fails
\* it returns null, sets an error and leaves generatedOutput as it was.
C12_NoArtifactBelowFloor ==
  (Generated /\ (~lastResult.session[1].isComplete
                   \/ Cardinality(Populated(lastResult.session[1].answers)) < 12))
    => /\ lastResult.result = <<>>
       /\ outputGen.error # <<>>
       /\ outputGen.generatedOutput = lastResult.before.generatedOutput

\* a session that is not complete has been refused while an earlier
\* artifact was held
C12_Witness ==
  /\ Generated
  /\ ~lastResult.session[1].isComplete
  /\ lastResult.before.generatedOutput # <<>>
  /\ lastResult.result = <<>>
  /\ outputGen.error # <<>>
  /\ outputGen.generatedOutput = lastResult.before.generatedOutput

\* the session of the last generation has all 15 questions answered and is
\* complete
FullSession ==
  /\ Generated
  /\ lastResult.session[1].isComplete
  /\ Cardinality(Populated(lastResult.session[1].answers)) = 15

\* the headers of a process section and of a pain-points section
SectionProcess == <<"gen", "jou", "pu", "ro", "se", "su">>
SectionPainPoints == <<"ka2", "dai">>

\* the document has a header line for the section
HasHeader(content, name) == includes(content, <<"#", "#", " ">> \o name)

\* C13: for a session in which all 15 questions have valid answers and
\* complete() has succeeded, generateOutput (when it finishes in time)
\* returns an artifact whose summary text has 50 to 500 characters and whose
\* document has the overview, goals, process, pain-points and requirements
\* headers.
C13_FullSessionYieldsArtifact ==
  (FullSession /\ lastResult.at - lastResult.started <= 5000)
    => /\ lastResult.result # <<>>
       /\ LET output == lastResult.result[1]
          IN /\ Len(output.summary.text) >= 50
             /\ Len(output.summary.text) <= 500
             /\ \A name \in {SectionOverview, SectionGoals, SectionProcess,
                             SectionPainPoints, SectionFunctional} :
                   HasHeader(output.markdownSpec.content, name)

\* a complete session with all 15 questions answered has been given an
\* artifact with a summary of 50 to 500 characters
C13_Witness ==
  /\ FullSession
  /\ lastResult.result # <<>>
  /\ Len(lastResult.result[1].summary.text) \in 50..500
  /\ HasHeader(lastResult.result[1].markdownSpec.content, SectionOverview)

\* what C14 compares of a result: null, or the summary and structured data
Compared(result) ==
  IF result = <<>> THEN <<>>
  ELSE <<[summary |-> result[1].summary, structuredData |-> result[1].structuredData]>>

C15_ValidationIsPure ==
  (mounted = "validators" /\ lastResult.op # "none") => lastResult.result = lastResult.fresh

\* validateEmail has been called on an address after an earlier call had
\* moved the shared pattern's position
C15_Witness ==
  /\ mounted = "validators"
  /\ lastResult.op = "validateEmail"
  /\ lastResult.input = << <<"a@b.jp", " ", "a@b.jp">> >>
  /\ emailLastIndex = 3

\* the last call was validateAnswer on a question whose showIf predicate
\* is false on allAnswers
HiddenQuestionValidated ==
  /\ mounted = "validators"
  /\ lastResult.op = "validateAnswer"
  /\ ~showIfHolds(lastResult.input[1], lastResult.input[3])

\* C16: validateAnswer returns no errors for a question whose showIf
\* predicate is false on allAnswers, whatever the question's value is, also
\* when the question is required and its value is empty or absent.
C16_HiddenQuestionHasNoErrors == HiddenQuestionValidated => lastResult.result = <<>>

\* a hidden required question holding a value has been validated without
\* errors
C16_Witness ==
  /\ HiddenQuestionValidated
  /\ lastResult.input[1].required
  /\ lastResult.input[2] = Str(<<"a">>)
  /\ lastResult.result = <<>>

\* a saveDraft call completes in this step
SaveDraftReturns(i) == i \in 1..Len(pendingSave) /\ ReturnSaveDraft(i)

\* C17: saveDraft writes the draft only when there is headroom for it: when
\* there is not, it first purges the expired drafts, and if the draft still
\* does not fit it writes nothing and signals QUOTA_EXCEEDED.
C17_WritesOnlyWithHeadroom ==
  [][\A i \in 1..MaxPendingSaves :
       SaveDraftReturns(i) =>
         LET p == pendingSave[i].p
             key == DraftKey(p.wizardId)
             size == TextLength(JSONstringifyDraft(draftStorageOf(p)))
             purged == cleanupExpiredDraftsSync(localStorage, now).storage
         IN IF checkQuota(localStorage, size)
            THEN lastResult'.result = TRUE /\ localStorage' = setItem(localStorage, key,
                                                  JSONstringifyDraft(draftStorageOf(p)))
            ELSE IF checkQuota(purged, size)
            THEN lastResult'.result = TRUE /\ localStorage' = setItem(purged, key,
                                                  JSONstringifyDraft(draftStorageOf(p)))
            ELSE /\ lastResult'.result = FALSE
                 /\ HasItem(localStorage', key) = HasItem(purged, key)
                 /\ HasItem(purged, key) => getItem(localStorage', key) = getItem(purged, key)
    ]_vars

\* a draft that did not fit has been written after the purge of an expired
\* draft made room for it
C17_Witness ==
  /\ mounted = "storage"
  /\ lastResult.op = "saveDraft" /\ lastResult.result = TRUE
  /\ ~HasItem(localStorage, DraftKey("legacy"))
  /\ HasItem(localStorage, DraftKey("uuid-1"))
  /\ localStorage[1].value = <<"blob", QuotaTotal - 1500>>
  /\ getUsage(localStorage).used < QuotaTotal
  /\ getUsage(localStorage).used + KeyLength(DraftKey("legacy")) + TextLength(LegacyDraft.value)
        >= QuotaTotal

\* the last call was a loadDraft that found a draft whose checksum does not
\* match its data
CorruptDraftLoaded ==
  /\ mounted = "storage"
  /\ lastResult.op = "loadDraft"
  /\ lastResult.before # <<>>
  /\ ParsesAsDraft(lastResult.before[1])
  /\ ~IntactDraft(lastResult.before[1])

\* C18: a stored draft whose checksum does not match its data is never
\* returned by loadDraft, and the corrupt entry is discarded: after the
\* failed load the entry is no longer in storage.
C18_CorruptDraftDiscarded ==
  CorruptDraftLoaded
    => /\ lastResult.result # "data"
       /\ ~HasItem(localStorage, DraftKey(lastResult.id))

\* loadDraft has refused an unexpired draft whose data was altered,
\* reporting the corruption
C18_Witness ==
  /\ CorruptDraftLoaded
  /\ lastResult.result = "CORRUPTION_DETECTED"
  /\ lastResult.data = <<>>

\* the number is outside [1,15]
OutsideSteps(step) == step.nan \/ step.twice < 2 \/ step.twice > 30

\* C19: goToStep(step) with step outside [1,15] returns false and changes
\* nothing; with step inside [1,15] it returns true and sets currentStep to
\* that step with the derived layer, without validating any answer, and
\* leaves answers, id and isComplete unchanged.
C19_GoToStepJumpsOrRefuses ==
  [][\A step \in GoToSteps :
       goToStep(step) =>
         IF OutsideSteps(step)
         THEN /\ lastCall'.result = FALSE
              /\ queuedState' = queuedState /\ stateDirty' = stateDirty
         ELSE /\ lastCall'.result = TRUE
              /\ stateDirty' = "dirty"
              /\ 2 * queuedState'.currentStep = step.twice
              /\ queuedState'.currentLayer = LayerOfStep(queuedState'.currentStep)
              /\ queuedState'.answers = queuedState.answers
              /\ queuedState'.id = queuedState.id
              /\ queuedState'.isComplete = queuedState.isComplete
    ]_vars

\* goToStep has jumped to step 5 of a session in which no question is
\* answered
C19_Witness ==
  /\ mounted = "hook"
  /\ lastCall = Call("goToStep", TRUE)
  /\ queuedState.currentStep = 5 /\ queuedState.currentLayer = 1
  /\ wizardState.currentStep = 1
  /\ queuedState.answers = NoAnswers

\* the catalog has 15 questions, 5 in each of the 3 layers
FivePerLayer(qs) ==
  /\ Len(qs) = 15
  /\ \A l \in 1..3 : Cardinality({i \in 1..Len(qs) : qs[i].layer = l}) = 5

\* a handler of useWizardState that moves the session
Transition ==
  \/ \E v \in {Str(<<"a">>), Str(<<"a@b.jp">>)} : setAnswer("purpose", v)
  \/ NextStep
  \/ goToStep(Whole(14))
  \/ complete

\* C20: a catalog that does not have exactly 5 questions in each of the 3
\* layers is rejected: validateForm raises ConstitutionalViolationError for
\* it, and no setAnswer, nextStep, goToStep or complete of useWizardState
\* changes the session against it.
C20_MalformedCatalogRejected ==
  /\ [](lastResult.op = "validateForm" /\ ~FivePerLayer(lastResult.input[1])
          => lastResult.result = [thrown |-> "ConstitutionalViolationError"])
  /\ [][~FivePerLayer(questions) /\ Transition => queuedState' = queuedState]_vars

\* validateForm has rejected a catalog of 14 questions, and the hook has
\* been called over that catalog
C20_Witness ==
  /\ Len(questions) = 14
  /\ lastResult.op = "validateForm"
  /\ lastResult.result = [thrown |-> "ConstitutionalViolationError"]
  /\ lastCall.op # "none"

\* the only update dispatched since the last render, if any, is a setAnswer
OnlyAnswersPending == stateDirty = "clean" \/ (turnOps = 1 /\ lastCall.op = "setAnswer")

\* what nextStep returns when it acts on the given answers
NextStepOn(answers) ==
  LET q == FindByStep(queuedState.currentStep)
  IN /\ q # <<>>
     /\ validateAnswer(q[1], answers[q[1].id], answers) = <<>>
     /\ queuedState.currentStep < 15

\* C21: a setAnswer(q, v) dispatched before nextStep(), complete() or
\* saveDraft(), also within the same event turn, is seen by them: nextStep
\* and complete validate the answers that contain v, saveDraft persists them.
C21_LaterOperationSeesAnswer ==
  [][OnlyAnswersPending =>
       /\ NextStep => lastCall'.result = NextStepOn(queuedState.answers)
       /\ complete =>
            lastCall'.result = (DOMAIN validateAllAnswers(questions, queuedState.answers) = {})
       /\ saveDraft =>
            pendingSave'[Len(pendingSave')].p.wizardState.answers = queuedState.answers
    ]_vars

\* nextStep has been called in the turn of a setAnswer that answered the
\* question of the current step
C21_Witness ==
  /\ mounted = "hook"
  /\ turnOps = 2
  /\ lastCall.op = "nextStep"
  /\ wizardState.answers["purpose"] = Undefined
  /\ queuedState.answers["purpose"] = Str(<<"a">>)

\* C22: reset() yields a session with a newly generated id different from
\* the discarded session's id, currentStep 1, currentLayer 1, empty answers,
\* isComplete false, draftSaved false and an empty validation-error map,
\* from any prior state.
C22_ResetYieldsNewSession ==
  [][reset /\ stateDirty # "throws" =>
       /\ lastCall'.result = TRUE
       /\ queuedState'.id \notin {queuedState.id, wizardState.id, stateRef.id}
       /\ queuedState'.currentStep = 1 /\ queuedState'.currentLayer = 1
       /\ \A q \in QuestionIds : queuedState'.answers[q] = Undefined
       /\ ~queuedState'.isComplete /\ ~queuedState'.draftSaved
       /\ \A q \in QuestionIds : queuedErrors'[q] = <<>>
       /\ stateDirty' = "dirty"
    ]_vars

\* reset has been called on the resumed session, at step 14 with every
\* question answered
C22_Witness ==
  /\ mounted = "hook"
  /\ lastCall.op = "reset"
  /\ wizardState.id = "uuid-0" /\ wizardState.currentStep = 14
  /\ wizardState.answers["purpose"] # Undefined
  /\ queuedState.id = "uuid-2" /\ queuedState.currentStep = 1

\* the stored drafts whose metadata say they are encrypted
EncryptedDrafts ==
  {i \in 1..Len(localStorage) :
     /\ localStorage[i].key[1] = DRAFT_PREFIX
     /\ JSONparses(localStorage[i].value)
     /\ JSONparse(localStorage[i].value).metadata.encrypted}

\* the stored text gives the answers of the session as they were typed
AnswersInPlaintext(draft) ==
  /\ "answers" \in DOMAIN draft.data
  /\ \E q \in DOMAIN draft.data.answers : draft.data.answers[q].t = "string"

\* C23: a draft in which saveDraft detects personal information is stored
\* encrypted: a stored record whose metadata.encrypted is true does not
\* contain the session's answers in plaintext.
C23_EncryptedDraftHidesAnswers ==
  \A i \in EncryptedDrafts : ~AnswersInPlaintext(JSONparse(localStorage[i].value))

\* saveDraft has stored a session one of whose answers holds an e-mail
\* address
C23_Witness ==
  /\ mounted = "storage"
  /\ lastResult.op = "saveDraft" /\ lastResult.result = TRUE
  /\ HasItem(localStorage, DraftKey("uuid-1"))
  /\ JSONparse(getItem(localStorage, DraftKey("uuid-1"))).metadata.encrypted

Delimiters == {",", "touten"}

\* the positions of the delimiters of a text
DelimiterPositions(text) == {i \in 1..Len(text) : text[i] \in Delimiters}

\* the i-th piece of a text between its delimiters
Piece(text, i) ==
  LET at == DelimiterPositions(text)
      before == {p \in at : Cardinality({r \in at : r <= p}) = i - 1}
      after == {p \in at : Cardinality({r \in at : r <= p}) = i}
      from == IF before = {} THEN 1 ELSE (CHOOSE p \in before : TRUE) + 1
      to == IF after = {} THEN Len(text) ELSE (CHOOSE p \in after : TRUE) - 1
  IN SubSeq(text, from, to)

\* C24: stakeholders.primary is the free-text answer split on every comma
\* and every ideographic comma: k delimiters yield k+1 entries in the
\* original order, and an absent answer yields the empty list.
C24_StakeholdersSplitOnDelimiters ==
  lastResult.op = "generateStructuredData" =>
    LET answer == AnswerAt(lastResult.input, "layer2_actors")
        primary == lastResult.result.stakeholders.primary
    IN IF answer = Undefined \/ answer = Str(<<>>)
       THEN primary = <<>>
       ELSE /\ Len(primary) = Cardinality(DelimiterPositions(answer.v)) + 1
            /\ \A i \in 1..Len(primary) : primary[i] = trim(Piece(answer.v, i))

\* an answer of three names with a comma and an ideographic comma between
\* them has been split
C24_Witness ==
  /\ lastResult.op = "generateStructuredData"
  /\ AnswerAt(lastResult.input, "layer2_actors") = Str(<<"a", "touten", "bu", ",">>)
  /\ lastResult.result.stakeholders.primary = << <<"a">>, <<"bu">>, <<>> >>

\* the App draft in storage: its save time and its content
AppDraftStored == HasItem(localStorage, DRAFT_KEY) /\ HasItem(localStorage, DRAFT_TIMESTAMP_KEY)
AppDraftSavedAt == getTime(getItem(localStorage, DRAFT_TIMESTAMP_KEY)[2])
AppDraftData == JSONparse(getItem(localStorage, DRAFT_KEY))

\* C25: App.loadDraft treats the persisted draft as absent and purges both
\* keys exactly when its expiry (save time + 24 hours) has passed; up to
\* and including exactly 24 hours after saving the draft is restored with
\* its saved step and answers.
C25_AppLoadHonoursExpiry ==
  [][\A away \in AwayTimes :
       AppReload(away) /\ AppDraftStored =>
         IF now' > AppDraftSavedAt + 24 * HourMs
         THEN /\ ~lastResult'.result
              /\ ~HasItem(localStorage', DRAFT_KEY)
              /\ ~HasItem(localStorage', DRAFT_TIMESTAMP_KEY)
              /\ app'.currentStep = 0 /\ app'.answers = NoAnswers
         ELSE /\ lastResult'.result
              /\ localStorage' = localStorage
              /\ app'.currentStep = AppDraftData.currentStep
              /\ app'.answers = AppDraftData.answers
    ]_vars

\* the page was loaded again and the draft of step 13 restored
C25_Witness ==
  /\ mounted = "app"
  /\ lastResult.op = "appLoadDraft" /\ lastResult.result
  /\ app.currentStep = 13
  /\ AppDraftStored /\ AppDraftData.currentStep = 13

\* C26: setAnswer(q, v) changes only answers[q] (to v), lastModified,
\* draftSaved (to false) and the validation errors recorded for q; id,
\* currentStep, currentLayer, isComplete, startedAt, every other answer and
\* every other question's errors stay as they are.
C26_SetAnswerFrame ==
  [][\A q \in EditIds : \A v \in AnswerInputs(FindById(q)[1]) :
       setAnswer(q, v) =>
         /\ queuedState' = [queuedState EXCEPT !.answers[q] = v,
                                                !.lastModified = queuedState'.lastModified,
                                                !.draftSaved = FALSE]
         /\ \A r \in QuestionIds \ {q} : queuedErrors'[r] = queuedErrors[r]
         /\ wizardState' = wizardState /\ validationErrors' = validationErrors
    ]_vars

\* setAnswer has written the first answer of the resumed session, which is
\* at step 14 with the other questions answered and errors recorded
C26_Witness ==
  /\ mounted = "hook"
  /\ lastCall.op = "setAnswer"
  /\ queuedState.currentStep = 14
  /\ queuedState.answers["purpose"] # wizardState.answers["purpose"]
  /\ queuedState.answers["goals"] # Undefined

\* C27: the summary text of generateSummary has a length within [50, 500]
\* for every answer map: a shorter text is padded up to at least 50 by the
\* generic suffix, a longer one is cut to exactly 500 with the ellipsis.
C27_SummaryLengthInWindow ==
  lastResult.op = "generateSummary" =>
    /\ Len(lastResult.result.text) >= 50
    /\ Len(lastResult.result.text) <= 500

\* a purpose of 35 characters has been padded with the suffix
C27_Witness ==
  /\ lastResult.op = "generateSummary"
  /\ "layer1_purpose" \in DOMAIN lastResult.input
  /\ lastResult.input["layer1_purpose"] = Str(TextOfLength(35))
  /\ lastResult.input["layer1_kpi"] = Str(<<>>)
  /\ lastResult.result.text = TextOfLength(35) \o SummarySuffix

\* C28: validateAnswer reports a DEPENDENCY error for a question that
\* declares prerequisites whenever one of them has an empty or absent answer
\* in allAnswers, whatever the value of the question itself is.
C28_MissingPrerequisiteReported ==
  lastResult.op = "validateAnswer" =>
    LET question == lastResult.input[1]
        allAnswers == lastResult.input[3]
    IN (\E i \in 1..Len(question.dependsOn) : EmptyAnswer(allAnswers[question.dependsOn[i]]))
         => HasCode(lastResult.result, "DEPENDENCY")

\* an answered question has been validated while its prerequisite is
\* unanswered
C28_Witness ==
  /\ lastResult.op = "validateAnswer"
  /\ lastResult.input[1].dependsOn = <<"purpose">>
  /\ lastResult.input[2] = Str(<<"a">>)
  /\ lastResult.input[3] = NoAnswers
  /\ HasCode(lastResult.result, "DEPENDENCY")

\* a setAnswer or a step transition has just been made on a session that is
\* not complete
InputMade ==
  /\ mounted = "hook"
  /\ lastCall.op \in {"setAnswer", "nextStep"} /\ lastCall.result
  /\ ~queuedState.isComplete

\* the stored draft of the session has the step and answers of the session
DraftIsCurrent ==
  /\ mounted = "hook"
  /\ wizardState = queuedState
  /\ HasItem(localStorage, DraftKey(wizardState.id))
  /\ LET data == JSONparse(getItem(localStorage, DraftKey(wizardState.id))).data
     IN /\ data.currentStep = wizardState.currentStep
        /\ data.answers = PlainState(wizardState).answers

\* C29: with auto-save and drafts enabled and writes succeeding, every
\* setAnswer or step transition on an incomplete session is eventually
\* followed, under fair timers and no further input, by a stored draft whose
\* step and answers equal the session's.
C29_InputEventuallySaved == InputMade ~> DraftIsCurrent

\* the answer given and the step taken are in the stored draft
C29_Witness ==
  /\ DraftIsCurrent
  /\ wizardState.currentStep = 2
  /\ wizardState.answers["purpose"] = Str(<<"a">>)

\* C30: once the user resets from the result screen, the discarded session
\* is gone from storage: a page reload within 24 hours restores nothing and
\* the wizard starts at the first step with empty answers.
C30_AppResetDiscardsDraft ==
  [][appReset =>
       LET reloaded == AppMounted(localStorage', now')
       IN /\ ~reloaded.restored
          /\ reloaded.app.currentStep = 0 /\ reloaded.app.answers = NoAnswers
    ]_vars

\* the user has reset from the result screen: the form is back at the first
\* question with no answers, the draft of the last step still stored
C30_Witness ==
  /\ mounted = "app"
  /\ app.currentStep = 0 /\ app.answers = NoAnswers /\ ~app.showResult
  /\ AppDraftStored /\ AppDraftData.currentStep = LastIndex

-----------------------------------------------------------------------------
(* listDrafts and cleanupExpiredDraftsSync over what storage holds          *)

\* a stored entry that is a draft, parses and has not expired at time t
ValidUnexpired(entry, t) ==
  /\ IsDraftKey(entry.key)
  /\ ParsesAsDraft(entry.value)
  /\ ~IsExpired(JSONparse(entry.value), t)

\* a stored entry under a draft key that does not parse or has expired at t
ExpiredOrUnparsable(entry, t) ==
  /\ IsDraftKey(entry.key)
  /\ \/ ~ParsesAsDraft(entry.value)
     \/ IsExpired(JSONparse(entry.value), t)

Entries(storage) == {storage[i] : i \in 1..Len(storage)}
Listed(drafts) == {drafts[i].wizardId : i \in 1..Len(drafts)}

\* C31: listDrafts returns an entry for every draft that was valid and
\* unexpired in storage when it was called, whatever else is stored with it
\* and in whatever order.
C31_ListsEveryUnexpiredDraft ==
  lastResult.op = "listDrafts" =>
    \A e \in Entries(lastResult.before[1]) :
      ValidUnexpired(e, lastResult.at) => e.key[2] \in Listed(lastResult.data)

\* listDrafts has returned over a storage that held an unexpired draft and an
\* expired or unparsable one
C31_Witness ==
  /\ lastResult.op = "listDrafts"
  /\ \E e \in Entries(lastResult.before[1]) : ValidUnexpired(e, lastResult.at)
  /\ \E e \in Entries(lastResult.before[1]) : ExpiredOrUnparsable(e, lastResult.at)
  /\ lastResult.data # <<>>

\* C32: after listDrafts no expired or unparsable draft entry remains in
\* storage, and every unexpired valid draft is still there.
C32_ListLeavesOnlyUnexpired ==
  lastResult.op = "listDrafts" =>
    /\ \A e \in Entries(localStorage) : ~ExpiredOrUnparsable(e, lastResult.at)
    /\ \A e \in Entries(lastResult.before[1]) :
         ValidUnexpired(e, lastResult.at) => e \in Entries(localStorage)

\* listDrafts has returned and has removed an entry from storage
C32_Witness ==
  /\ lastResult.op = "listDrafts"
  /\ \E e \in Entries(lastResult.before[1]) :
       ExpiredOrUnparsable(e, lastResult.at) /\ e \notin Entries(localStorage)
  /\ \E e \in Entries(localStorage) : ValidUnexpired(e, lastResult.at)

\* C33: cleanupExpiredDraftsSync removes every draft entry that is expired or
\* unparsable and no other entry, and returns the number of entries removed.
C33_CleanupRemovesExactly ==
  lastResult.op = "cleanupExpiredDrafts" =>
    /\ Entries(localStorage) =
         {e \in Entries(lastResult.before[1]) : ~ExpiredOrUnparsable(e, lastResult.at)}
    /\ lastResult.result = Len(lastResult.before[1]) - Len(localStorage)

\* the cleanup has returned after removing an entry and keeping a draft
C33_Witness ==
  /\ lastResult.op = "cleanupExpiredDrafts"
  /\ lastResult.result > 0
  /\ \E e \in Entries(localStorage) : IsDraftKey(e.key)

-----------------------------------------------------------------------------
(* useWizardState: the draftSaved flag, completed sessions, canGoNext       *)

\* the draft stored under the session's id holds the session's step and answers
StoredMatchesState ==
  /\ HasItem(localStorage, DraftKey(wizardState.id))
  /\ LET data == JSONparse(getItem(localStorage, DraftKey(wizardState.id))).data
     IN /\ data.currentStep = wizardState.currentStep
        /\ data.answers = PlainState(wizardState).answers

\* C34: whenever draftSaved is true, the draft stored for the session's id
\* has the currentStep and answers of the in-memory state, also when an edit
\* arrives while an asynchronous save is in progress.
C34_DraftSavedMeansStored ==
  (mounted = "hook" /\ wizardState.draftSaved) => StoredMatchesState

\* an auto-save has finished and the rendered state says draftSaved
C34_Witness ==
  /\ mounted = "hook"
  /\ wizardState.draftSaved
  /\ wizardState.answers # NoAnswers
  /\ HasItem(localStorage, DraftKey(wizardState.id))

\* C35: whenever isComplete is true, validating all questions against the
\* current answers yields no errors; nothing that can be done after
\* complete() leaves a completed session with an invalid answer map.
C35_CompleteStaysValid ==
  (mounted = "hook" /\ wizardState.isComplete) => AllValid

\* a session that complete() has completed, with every answer valid
C35_Witness ==
  /\ mounted = "hook"
  /\ wizardState.isComplete
  /\ lastCall.op = "complete" /\ lastCall.result
  /\ AllValid

\* C36: navigationState.canGoNext is true exactly when nextStep() called in
\* that same rendered state succeeds: with canGoNext true nextStep returns
\* true and advances by one step, with canGoNext false it returns false.
C36_CanGoNextMatchesNextStep ==
  [][(Quiescent /\ NextStep) =>
       IF navigationState.canGoNext
       THEN lastCall'.result /\ queuedState'.currentStep = wizardState.currentStep + 1
       ELSE ~lastCall'.result
    ]_vars

\* nextStep has advanced a rendered session past an answered question
C36_Witness ==
  /\ mounted = "hook"
  /\ lastCall.op = "nextStep" /\ lastCall.result
  /\ queuedState.currentStep = wizardState.currentStep + 1
  /\ navigationState.canGoNext

====
